---------------------------- MODULE Spec2Model ----------------------------
(***************************************************************************)
(* DevOps Hybrid Cockpit: the account registry (core/accounts.ts), the TTL *)
(* cache (util/cache.ts) and the aggregation / write paths of the provider *)
(* adapters (providers/*.ts), as state machines.                           *)
(*                                                                         *)
(* Three specifications share the variables:                               *)
(*   SpecCache     one SimpleCache instance driven through its methods     *)
(*   SpecAccounts  the AccountManager driven through its mutations         *)
(*   SpecProvider  one adapter (chosen at Init) over a registry            *)
(***************************************************************************)
EXTENDS Integers, Sequences, FiniteSets, TLC

VARIABLES
    now,        \* Date.now(), in model time units
    cache,      \* SimpleCache.cache : Map<string, CacheEntry>
    lastSet,    \* history: per key, the last CacheEntry written by set()
    calls,      \* in-flight asynchronous calls (suspended at an await)
    ret,        \* what the last completed call returned or threw
    accounts,   \* AccountManager.accounts (in memory)
    persisted,  \* globalState['devops.accounts'].accounts
    secrets,    \* vscode.SecretStorage : key -> secret
    pending,    \* account mutations suspended before their save()
    kind,       \* the provider id of the adapter instance
    faults,     \* how many store operations / upstream requests have failed
    tokenCache, \* GoogleDnsProvider.tokenCache : keyJson -> {token, expiry}
    upstream,   \* the DNS record as the upstream API holds it
    sshKeyCache, \* HetznerCloudProvider.sshKeyCache
    volumeCache  \* HetznerCloudProvider.volumeCache

vars == <<now, cache, lastSet, calls, ret, accounts, persisted, secrets, pending, kind,
          faults, tokenCache, upstream, sshKeyCache, volumeCache>>

-----------------------------------------------------------------------------
(* Bounds of the model *)

MaxClock == 4
MaxCalls == 2
MaxAccounts == 2
MaxAcctClock == 1
MaxPending == 1
MaxFaults == 1
MaxProvClock == 2

\* lifetime of a google access token (expires_in - 60 s), in model time units
TokenLife == 1

\* the 60 s subtracted from expires_in, in model time units
SkewMargin == 1

\* new SimpleCache(30000): the TTL, scaled to model time units
ttlMs == 1

Undefined == "undefined"
Idle == [op |-> "idle"]

\* no DNS record
NoRecord == [name |-> "", type |-> "", value |-> "", ttl |-> 0]


RemoveAt(s, i) == [j \in 1..(Len(s) - 1) |-> IF j < i THEN s[j] ELSE s[j + 1]]

-----------------------------------------------------------------------------
(* util/cache.ts : SimpleCache<T>.  A Map is a function whose DOMAIN is    *)
(* the set of keys that have an entry.                                     *)

Keys == {"k1", "k2"}
Vals == {"v1", "v2"}

EmptyMap == [k \in {} |-> Undefined]

MapDelete(m, key) == [k \in (DOMAIN m) \ {key} |-> m[k]]

MapSet(m, key, e) == [k \in (DOMAIN m) \cup {key} |-> IF k = key THEN e ELSE m[k]]

\* get(): `age > this.ttlMs`
ExpiredOff(entry, t) == t - entry.timestamp >= ttlMs
Expired(entry, t) == t - entry.timestamp > ttlMs

\* get(): the value returned
GetValueKeepStale(c, key, t) == IF key \in DOMAIN c THEN c[key].data ELSE Undefined
GetValue(c, key, t) ==
    IF key \notin DOMAIN c THEN Undefined
    ELSE IF Expired(c[key], t) THEN Undefined
    ELSE c[key].data

\* get(): the map afterwards (an expired entry is deleted on read)
GetCacheNoEvict(c, key, t) == c
GetCache(c, key, t) ==
    IF key \in DOMAIN c /\ Expired(c[key], t) THEN MapDelete(c, key) ELSE c

\* set(): data stamped with Date.now()
SetCacheKeepOld(c, key, data, t) ==
    IF key \in DOMAIN c THEN c ELSE MapSet(c, key, [data |-> data, timestamp |-> t])
SetCache(c, key, data, t) == MapSet(c, key, [data |-> data, timestamp |-> t])

\* invalidate(key) and clear()
InvalidateCache(c, key) == MapDelete(c, key)
ClearCache(c) == EmptyMap

\* getOrFetch(): `cached !== undefined` decides whether fetchFn is awaited;
\* get() returns undefined for an absent or expired entry (no caller stores
\* the value undefined)
FetchNeededAlways(c, key, t) == TRUE
FetchNeeded(c, key, t) == key \notin DOMAIN c \/ Expired(c[key], t)

FreeCalls == {c \in 1..MaxCalls : calls[c] = Idle}


\* the clock advances between any two steps, or does not
Tick(limit) ==
    /\ now < limit
    /\ now' = now + 1
    /\ UNCHANGED <<cache, lastSet, calls, ret, accounts, persisted, secrets, pending, kind,
                 faults, tokenCache, upstream, sshKeyCache, volumeCache>>

CacheGetStep(key) ==
    /\ ret' = [op |-> "get", key |-> key, value |-> GetValue(cache, key, now),
               time |-> now, fetched |-> FALSE,
               age |-> IF key \in DOMAIN cache THEN now - cache[key].timestamp ELSE -1]
    /\ cache' = GetCache(cache, key, now)
    /\ UNCHANGED <<now, lastSet, calls>>
    /\ UNCHANGED <<accounts, persisted, secrets, pending, kind, faults, tokenCache, upstream, sshKeyCache, volumeCache>>

CacheSetStep(key, data) ==
    /\ cache' = SetCache(cache, key, data, now)
    /\ lastSet' = [lastSet EXCEPT ![key] = [data |-> data, timestamp |-> now]]
    /\ ret' = [op |-> "set", key |-> key, value |-> data, time |-> now, fetched |-> FALSE, age |-> -1]
    /\ UNCHANGED <<now, calls>>
    /\ UNCHANGED <<accounts, persisted, secrets, pending, kind, faults, tokenCache, upstream, sshKeyCache, volumeCache>>

CacheInvalidateStep(key) ==
    /\ cache' = InvalidateCache(cache, key)
    /\ ret' = [op |-> "invalidate", key |-> key, value |-> Undefined, time |-> now,
               fetched |-> FALSE, age |-> -1]
    /\ UNCHANGED <<now, lastSet, calls>>
    /\ UNCHANGED <<accounts, persisted, secrets, pending, kind, faults, tokenCache, upstream, sshKeyCache, volumeCache>>

CacheClearStep ==
    /\ cache' = ClearCache(cache)
    /\ ret' = [op |-> "clear", key |-> "", value |-> Undefined, time |-> now,
               fetched |-> FALSE, age |-> -1]
    /\ UNCHANGED <<now, lastSet, calls>>
    /\ UNCHANGED <<accounts, persisted, secrets, pending, kind, faults, tokenCache, upstream, sshKeyCache, volumeCache>>

\* getOrFetch(key, fetchFn) up to its await: a hit returns at once, a miss
\* calls fetchFn() and suspends
GetOrFetchStep(c, key) ==
    /\ calls[c] = Idle
    /\ cache' = GetCache(cache, key, now)
    /\ IF FetchNeeded(cache, key, now)
       THEN /\ calls' = [calls EXCEPT ![c] = [op |-> "getOrFetch", key |-> key]]
            /\ UNCHANGED ret
       ELSE /\ ret' = [op |-> "getOrFetch", key |-> key,
                       value |-> GetValue(cache, key, now), time |-> now,
                       fetched |-> FALSE, age |-> -1]
            /\ UNCHANGED calls
    /\ UNCHANGED <<now, lastSet>>
    /\ UNCHANGED <<accounts, persisted, secrets, pending, kind, faults, tokenCache, upstream, sshKeyCache, volumeCache>>

\* fetchFn() resolved with data: set(key, data); return data
FetchResolveStep(c, data) ==
    /\ calls[c] # Idle
    /\ calls[c].op = "getOrFetch"
    /\ cache' = SetCache(cache, calls[c].key, data, now)
    /\ lastSet' = [lastSet EXCEPT ![calls[c].key] = [data |-> data, timestamp |-> now]]
    /\ ret' = [op |-> "getOrFetch", key |-> calls[c].key, value |-> data, time |-> now,
               fetched |-> TRUE, age |-> -1]
    /\ calls' = [calls EXCEPT ![c] = Idle]
    /\ UNCHANGED now
    /\ UNCHANGED <<accounts, persisted, secrets, pending, kind, faults, tokenCache, upstream, sshKeyCache, volumeCache>>

\* fetchFn() rejected: the rejection propagates, nothing is stored
FetchRejectStores(c) ==
    /\ calls[c] # Idle
    /\ calls[c].op = "getOrFetch"
    /\ cache' = [k \in (DOMAIN cache) \cup {calls[c].key} |->
                    IF k = calls[c].key THEN [data |-> "error", timestamp |-> now]
                    ELSE cache[k]]
    /\ ret' = [op |-> "getOrFetch", key |-> calls[c].key, value |-> "error", time |-> now,
               fetched |-> TRUE, age |-> -1]
    /\ calls' = [calls EXCEPT ![c] = Idle]
    /\ UNCHANGED <<now, lastSet, accounts, persisted, secrets, pending, kind, faults,
                   tokenCache, upstream, sshKeyCache, volumeCache>>
FetchRejectStep(c) ==
    /\ calls[c] # Idle
    /\ calls[c].op = "getOrFetch"
    /\ ret' = [op |-> "getOrFetch", key |-> calls[c].key, value |-> "error", time |-> now,
               fetched |-> TRUE, age |-> -1]
    /\ calls' = [calls EXCEPT ![c] = Idle]
    /\ UNCHANGED <<now, cache, lastSet>>
    /\ UNCHANGED <<accounts, persisted, secrets, pending, kind, faults, tokenCache, upstream, sshKeyCache, volumeCache>>


InitEmpty ==
    /\ now = 0
    /\ cache = EmptyMap
    /\ lastSet = [k \in Keys |-> [data |-> Undefined, timestamp |-> 0]]
    /\ calls = [c \in 1..MaxCalls |-> Idle]
    /\ ret = [op |-> "none", key |-> "", value |-> Undefined, time |-> 0, fetched |-> FALSE, age |-> -1]
    /\ accounts = <<>>
    /\ persisted = <<>>
    /\ secrets = EmptyMap
    /\ pending = <<>>
    /\ kind = "none"
    /\ faults = 0
    /\ tokenCache = EmptyMap
    /\ upstream = NoRecord
    /\ sshKeyCache = EmptyMap
    /\ volumeCache = EmptyMap

NextCache ==
    \/ Tick(MaxClock)
    \/ \E key \in Keys : CacheGetStep(key)
    \/ \E key \in Keys, data \in Vals : CacheSetStep(key, data)
    \/ \E key \in Keys : CacheInvalidateStep(key)
    \/ CacheClearStep
    \/ \E c \in 1..MaxCalls, key \in Keys : GetOrFetchStep(c, key)
    \/ \E c \in 1..MaxCalls, data \in Vals : FetchResolveStep(c, data)
    \/ \E c \in 1..MaxCalls : FetchRejectStep(c)

SpecCache == InitEmpty /\ [][NextCache]_vars

-----------------------------------------------------------------------------
(* core/accounts.ts : AccountManager *)

ProviderKinds == {"cloudflare", "hetzner-cloud"}
Names == {"n1"}
Colors == {"green"}
Tokens == {"tok1", "tok2"}

\* `${provider}-${Date.now()}`: the provider id and the millisecond, joined
MakeId(provider, t) == <<provider, t>>

AccountIds == {MakeId(p, t) : p \in ProviderKinds, t \in 0..MaxAcctClock}

\* `devops.token.${id}`
TokenKey(id) == <<"devops.token", id[1], id[2]>>

\* the first index whose account has this id, 0 when there is none
\* (Array.prototype.find / findIndex)
FindIndexOrFirst(accts, id) ==
    IF \E i \in 1..Len(accts) : accts[i].id = id
    THEN CHOOSE i \in 1..Len(accts) :
             /\ accts[i].id = id
             /\ \A j \in 1..(i - 1) : accts[j].id # id
    ELSE IF accts = <<>> THEN 0 ELSE 1
FindIndex(accts, id) ==
    IF \E i \in 1..Len(accts) : accts[i].id = id
    THEN CHOOSE i \in 1..Len(accts) :
             /\ accts[i].id = id
             /\ \A j \in 1..(i - 1) : accts[j].id # id
    ELSE 0

\* getByProvider(provider): filter keeps the order
RECURSIVE GetByProvider(_, _)
GetByProviderUnfiltered(accts, provider) == accts
GetByProvider(accts, provider) ==
    IF accts = <<>> THEN <<>>
    ELSE IF Head(accts).provider = provider
         THEN <<Head(accts)>> \o GetByProvider(Tail(accts), provider)
         ELSE GetByProvider(Tail(accts), provider)

\* getById(id): <<account>>, or <<>> for undefined
GetById(accts, id) ==
    IF FindIndex(accts, id) = 0 THEN <<>> ELSE <<accts[FindIndex(accts, id)]>>

\* getDefaultForProvider(provider): the one marked default, else the first;
\* <<account>>, or <<>> for undefined
GetDefaultAnyProvider(accts, provider) == IF accts = <<>> THEN <<>> ELSE <<accts[1]>>
GetDefaultForProvider(accts, provider) ==
    LET pa == GetByProvider(accts, provider)
    IN  IF \E i \in 1..Len(pa) : pa[i].isDefault
        THEN <<pa[CHOOSE i \in 1..Len(pa) :
                      pa[i].isDefault /\ \A j \in 1..(i - 1) : ~pa[j].isDefault]>>
        ELSE IF pa = <<>> THEN <<>> ELSE <<pa[1]>>

\* getToken(id): secrets.get(`devops.token.${id}`)
GetToken(sec, id) == IF TokenKey(id) \in DOMAIN sec THEN sec[TokenKey(id)] ELSE Undefined

\* addAccount: `filter(a => a.provider === provider && a.isDefault)
\*                 .forEach(a => a.isDefault = false)`
UnsetDefaults(accts, provider) ==
    [i \in 1..Len(accts) |->
        IF accts[i].provider = provider /\ accts[i].isDefault
        THEN [accts[i] EXCEPT !.isDefault = FALSE]
        ELSE accts[i]]

\* updateAccount: the same with `a.id !== id`
UnsetOtherDefaults(accts, provider, id) ==
    [i \in 1..Len(accts) |->
        IF accts[i].provider = provider /\ accts[i].id # id /\ accts[i].isDefault
        THEN [accts[i] EXCEPT !.isDefault = FALSE]
        ELSE accts[i]]

\* the `updates` argument of updateAccount: each field alone, and all three
Updates ==
    {[name |-> n, color |-> Undefined, isDefault |-> Undefined] : n \in Names}
    \cup {[name |-> Undefined, color |-> c, isDefault |-> Undefined] : c \in Colors}
    \cup {[name |-> Undefined, color |-> Undefined, isDefault |-> d] : d \in {"true", "false"}}
    \cup {[name |-> n, color |-> c, isDefault |-> "true"] : n \in Names, c \in Colors}


\* a Credential Store operation rejects (failed) or resolves
Fault(failed) ==
    IF failed THEN faults < MaxFaults /\ faults' = faults + 1 ELSE UNCHANGED faults

\* what an AccountManager call returned (err = "none") or threw
AcctRet(op, id, err) == [op |-> op, ok |-> err = "none", err |-> err]

\* addAccount(name, provider, token, color, isDefault) up to the end of
\* `await this.secrets.store(...)`; storeOk is whether the store resolved
AddAccount(name, provider, token, color, isDefault, storeOk) ==
    LET id == MakeId(provider, now)
        account == [id |-> id, name |-> name, provider |-> provider, color |-> color,
                    isDefault |-> isDefault, createdAt |-> now]
    IN  /\ Len(accounts) < MaxAccounts
        /\ accounts' = Append(IF isDefault THEN UnsetDefaults(accounts, provider)
                              ELSE accounts, account)
        /\ IF storeOk
           THEN /\ Len(pending) < MaxPending
                /\ secrets' = MapSet(secrets, TokenKey(id), token)
                /\ pending' = Append(pending, [op |-> "addAccount", id |-> id])
                /\ UNCHANGED ret
           ELSE /\ ret' = AcctRet("addAccount", id, "StoreError")
                /\ UNCHANGED <<secrets, pending>>
        /\ Fault(~storeOk)
        /\ UNCHANGED <<now, persisted>>
        /\ UNCHANGED <<cache, lastSet, calls, kind, tokenCache, upstream, sshKeyCache, volumeCache>>

\* save(): globalState.update(ACCOUNTS_KEY, { accounts }) at the end of a
\* suspended addAccount / deleteAccount
Save(i) ==
    /\ i \in 1..Len(pending)
    /\ persisted' = accounts
    /\ ret' = AcctRet(pending[i].op, pending[i].id, "none")
    /\ pending' = RemoveAt(pending, i)
    /\ UNCHANGED <<now, accounts, secrets, faults>>
    /\ UNCHANGED <<cache, lastSet, calls, kind, tokenCache, upstream, sshKeyCache, volumeCache>>

\* updateAccount(id, {name, color, isDefault}); Undefined is an omitted field,
\* isDefault is "true" / "false" when given (`if (updates.isDefault)`)
UpdateAccount(id, name, color, isDefault) ==
    LET index == FindIndex(accounts, id)
        a1 == IF name # Undefined
              THEN [accounts EXCEPT ![index].name = name] ELSE accounts
        a2 == IF color # Undefined THEN [a1 EXCEPT ![index].color = color] ELSE a1
        a3 == IF isDefault = "true"
              THEN [UnsetOtherDefaults(a2, a2[index].provider, id)
                        EXCEPT ![index].isDefault = TRUE]
              ELSE a2
    IN  IF index = 0
        THEN /\ ret' = AcctRet("updateAccount", id, "NotFound")
             /\ UNCHANGED <<now, accounts, persisted, secrets, pending, faults>>
             /\ UNCHANGED <<cache, lastSet, calls, kind, tokenCache, upstream, sshKeyCache, volumeCache>>
        ELSE /\ accounts' = a3
             /\ persisted' = a3
             /\ ret' = AcctRet("updateAccount", id, "none")
             /\ UNCHANGED <<now, secrets, pending, faults>>
             /\ UNCHANGED <<cache, lastSet, calls, kind, tokenCache, upstream, sshKeyCache, volumeCache>>

\* updateToken(id, token)
UpdateToken(id, token, storeOk) ==
    /\ IF FindIndex(accounts, id) = 0
       THEN /\ ret' = AcctRet("updateToken", id, "NotFound")
            /\ storeOk
            /\ UNCHANGED <<secrets, faults>>
       ELSE /\ secrets' = IF storeOk THEN MapSet(secrets, TokenKey(id), token) ELSE secrets
            /\ ret' = AcctRet("updateToken", id, IF storeOk THEN "none" ELSE "StoreError")
            /\ Fault(~storeOk)
    /\ UNCHANGED <<now, accounts, persisted, pending>>
    /\ UNCHANGED <<cache, lastSet, calls, kind, tokenCache, upstream, sshKeyCache, volumeCache>>

\* deleteAccount(id) up to the end of `await this.secrets.delete(...)`
DeleteAccount(id, deleteOk) ==
    LET index == FindIndex(accounts, id)
    IN  IF index = 0
        THEN /\ ret' = AcctRet("deleteAccount", id, "NotFound")
             /\ deleteOk
             /\ UNCHANGED <<now, accounts, persisted, secrets, pending, faults>>
             /\ UNCHANGED <<cache, lastSet, calls, kind, tokenCache, upstream, sshKeyCache, volumeCache>>
        ELSE /\ accounts' = RemoveAt(accounts, index)
             /\ IF deleteOk
                THEN /\ Len(pending) < MaxPending
                     /\ secrets' = MapDelete(secrets, TokenKey(id))
                     /\ pending' = Append(pending, [op |-> "deleteAccount", id |-> id])
                     /\ UNCHANGED ret
                ELSE /\ ret' = AcctRet("deleteAccount", id, "StoreError")
                     /\ UNCHANGED <<secrets, pending>>
             /\ Fault(~deleteOk)
             /\ UNCHANGED <<now, persisted>>
             /\ UNCHANGED <<cache, lastSet, calls, kind, tokenCache, upstream, sshKeyCache, volumeCache>>

NextAccounts ==
    \/ Tick(MaxAcctClock)
    \/ \E name \in Names, provider \in ProviderKinds, token \in Tokens, color \in Colors,
          isDefault \in BOOLEAN, storeOk \in BOOLEAN :
          AddAccount(name, provider, token, color, isDefault, storeOk)
    \/ \E i \in 1..MaxPending : Save(i)
    \/ \E id \in AccountIds, u \in Updates : UpdateAccount(id, u.name, u.color, u.isDefault)
    \/ \E id \in AccountIds, token \in Tokens, storeOk \in BOOLEAN :
          UpdateToken(id, token, storeOk)
    \/ \E id \in AccountIds, deleteOk \in BOOLEAN : DeleteAccount(id, deleteOk)

SpecAccounts == InitEmpty /\ [][NextAccounts]_vars

-----------------------------------------------------------------------------
(* providers/*.ts : the adapters.  cloudflare, aws-route53, google-dns and *)
(* hetzner-cloud aggregate over the accounts of their kind; ionos-dns      *)
(* reads the single secret 'ionos.dns.token'.                              *)

AdapterKinds == {"cloudflare", "aws-route53", "google-dns", "hetzner-cloud", "ionos-dns"}
AccountBased == AdapterKinds \ {"ionos-dns"}

\* a provider kind other than the adapter's own, for accounts that are not its
OtherKind(k) == IF k = "github" THEN "cloudflare" ELSE "github"

\* the key each adapter passes to cache.getOrFetch
AggregateKey(k) ==
    IF k = "hetzner-cloud" THEN "all-servers"
    ELSE IF k = "ionos-dns" THEN "domains"
    ELSE "all-domains"

\* secrets.get('ionos.dns.token')
LegacyKey == <<"ionos.dns.token", "", 0>>

\* accountId: '' of a sentinel
NoAcct == <<"", 0>>

\* util/errors.ts isAuthError
IsAuthError(statusCode) == statusCode = 401 \/ statusCode = 403

\* Server.status of a sentinel / Domain has no status
NoStatus(k) == IF k = "hetzner-cloud" THEN "unknown" ELSE "-"

\* the `__no_account__` element returned when the provider has no account
NoAccountSentinel(k) ==
    [id |-> <<"__no_account__", "", 0>>, accountId |-> NoAcct, records |-> <<>>,
     status |-> NoStatus(k)]

\* the `__no_token__` element of the ionos adapter
NoTokenSentinel ==
    [id |-> <<"__no_token__", "", 0>>, accountId |-> NoAcct, records |-> <<>>,
     status |-> "-"]

\* the `__error_${account.id}__` element pushed by the catch block
ErrorSentinelAsNoAccount(k, acctId) ==
    [id |-> <<"__no_account__", "", 0>>, accountId |-> <<"", 0>>, records |-> <<>>,
     status |-> IF k = "hetzner-cloud" THEN "unknown" ELSE "-"]
ErrorSentinel(k, acctId) ==
    [id |-> <<"__error", acctId[1], acctId[2]>>, accountId |-> acctId, records |-> <<>>,
     status |-> NoStatus(k)]


\* what the upstream API answers to the list request of one account: the
\* status, the zones (servers) listed, whether the per-zone record requests
\* succeed, and cloudflare's `success` flag
Responses ==
    {[status |-> st, zones |-> <<>>, recOk |-> FALSE, success |-> TRUE] : st \in {401, 500}}
    \cup {[status |-> 200, zones |-> <<>>, recOk |-> TRUE, success |-> TRUE],
          [status |-> 200, zones |-> <<"z1">>, recOk |-> TRUE, success |-> TRUE],
          [status |-> 200, zones |-> <<>>, recOk |-> TRUE, success |-> FALSE]}

\* fetchDomainsForAccount / fetchServersForAccount: does this response throw
FetchThrows(k, resp) ==
    \/ resp.status # 200
    \/ k = "cloudflare" /\ ~resp.success

\* the resources built from a 200 response, tagged with the account
Normalize(k, acctId, resp) ==
    [n \in 1..Len(resp.zones) |->
        [id |-> <<resp.zones[n], "", 0>>,
         accountId |-> acctId,
         records |-> IF k # "hetzner-cloud" /\ resp.recOk THEN <<"r1">> ELSE <<>>,
         status |-> IF k = "hetzner-cloud" THEN "running" ELSE "-"]]

\* requests sent for one account's listing: the list request and one record
\* request per zone (hetzner lists servers in one request)
RequestsFor(k, resp) ==
    IF FetchThrows(k, resp) \/ k = "hetzner-cloud" THEN 1 ELSE 1 + Len(resp.zones)

\* catch (err) { allDomains.push({ id: `__error_${account.id}__`, ... }) }
PushErrorReplacing(k, all, acctId) == <<ErrorSentinel(k, acctId)>>
PushError(k, all, acctId) == Append(all, ErrorSentinel(k, acctId))

\* allDomains.push(...domains)
PushDomains(all, domains) == all \o domains

\* `if (accounts.length === 0) return [sentinel]`
NoAccounts(accts) == Len(accts) = 0

\* google getAccessToken(): `cached && cached.expiry > Date.now()`
TokenCachedAtExpiry(tc, keyJson, t) == keyJson \in DOMAIN tc /\ tc[keyJson].expiry >= t
TokenCached(tc, keyJson, t) == keyJson \in DOMAIN tc /\ tc[keyJson].expiry > t

\* google getAccessToken(): tokenCache.set(keyJson, {token, expiry}) with
\* expiry: Date.now() + (data.expires_in - 60) * 1000
TokenCacheSet(tc, keyJson, token, expiresIn, t) ==
    MapSet(tc, keyJson, [token |-> token, expiry |-> t + (expiresIn - SkewMargin)])

\* the token endpoint's answer inside a listing or an update
IssuedToken == "at1"
IssuedExpiresIn == TokenLife + SkewMargin

MinFree == CHOOSE c \in FreeCalls : \A d \in FreeCalls : c <= d

\* no call of this operation is suspended at an await (the runs explored
\* have at most one updateRecord in flight at a time; listings overlap each
\* other and the write freely)
NoneInFlight(op) == \A c \in 1..MaxCalls : calls[c] = Idle \/ calls[c].op # op

ProvRet(op, threw, result, fetched, call) ==
    [op |-> op, threw |-> threw, result |-> result, fetched |-> fetched,
     http |-> call.http, reads |-> call.reads, log |-> call.log, got |-> call.got,
     zero |-> call.zero, arg |-> call.arg, status |-> 0,
     cached |-> op = "update" /\ AggregateKey(kind) \in DOMAIN cache]

NoCall == [http |-> 0, reads |-> 0, log |-> <<>>, got |-> <<>>, zero |-> FALSE, arg |-> NoAcct]

\* ret holds what the step just taken returned or threw; a step that
\* returns nothing leaves NoProvRet
NoProvRet == ProvRet("none", "none", <<>>, FALSE, NoCall)


\* listDomains() / listServers() up to the first await
ListDomains(c) ==
    LET accts == GetByProvider(accounts, kind)
        key == AggregateKey(kind)
    IN  /\ kind \in AccountBased
        /\ FreeCalls # {}
        /\ c = MinFree
        /\ IF NoAccounts(accts)
           THEN /\ ret' = ProvRet("list", "none", <<NoAccountSentinel(kind)>>, FALSE,
                                  [NoCall EXCEPT !.zero = TRUE])
                /\ UNCHANGED <<cache, calls>>
           ELSE /\ cache' = GetCache(cache, key, now)
                /\ IF FetchNeeded(cache, key, now)
                   THEN /\ calls' = [calls EXCEPT ![c] =
                               [op |-> "list", pc |-> "token", accts |-> accts, i |-> 1,
                                all |-> <<>>, http |-> 0, reads |-> 1, log |-> <<>>,
                                got |-> <<>>, zero |-> FALSE, arg |-> NoAcct]]
                        /\ ret' = NoProvRet
                   ELSE /\ ret' = ProvRet("list", "none", GetValue(cache, key, now), FALSE,
                                          NoCall)
                        /\ UNCHANGED calls
        /\ UNCHANGED now
        /\ UNCHANGED <<lastSet, accounts, persisted, secrets, pending, kind, upstream, sshKeyCache, volumeCache>>
        /\ UNCHANGED tokenCache
        /\ UNCHANGED faults

\* the end of one iteration of `for (const account of accounts)`: the next
\* account's getToken is awaited, or the loop is over and getOrFetch stores
\* and returns allDomains
ListAdvance(c, call) ==
    IF call.i < Len(call.accts)
    THEN /\ calls' = [calls EXCEPT ![c] =
                [call EXCEPT !.i = call.i + 1, !.pc = "token", !.reads = call.reads + 1]]
         /\ ret' = NoProvRet
         /\ UNCHANGED cache
    ELSE /\ cache' = SetCache(cache, AggregateKey(kind), call.all, now)
         /\ ret' = ProvRet("list", "none", call.all, TRUE, call)
         /\ calls' = [calls EXCEPT ![c] = Idle]

ListFailed(call) ==
    [call EXCEPT !.all = PushError(kind, call.all, call.accts[call.i].id),
                 !.log = Append(call.log, "fail"),
                 !.got = Append(call.got, <<>>)]

\* `if (!token) continue;`: nothing is pushed for the account
ListSkippedAsError(call) ==
    [call EXCEPT !.all = Append(call.all,
                                [id |-> <<"__error", call.accts[call.i].id[1],
                                          call.accts[call.i].id[2]>>,
                                 accountId |-> call.accts[call.i].id, records |-> <<>>,
                                 status |-> "-"]),
                 !.log = Append(call.log, "skip"),
                 !.got = Append(call.got, <<>>)]
ListSkipped(call) ==
    [call EXCEPT !.log = Append(call.log, "skip"),
                 !.got = Append(call.got, <<>>)]

\* `await this.accountManager.getToken(account.id)` settles: it rejects
\* (tokenOk = FALSE), or yields no secret (`continue`), or yields one and the
\* account's fetch starts; credOk is whether the stored credential parses
\* (aws parseCredentials, google JSON.parse)
ListToken(c, tokenOk, credOk) ==
    LET call == calls[c]
        acctId == call.accts[call.i].id
        token == GetToken(secrets, acctId)
        parses == credOk \/ kind \notin {"aws-route53", "google-dns"}
    IN  /\ call # Idle
        /\ call.op = "list" /\ call.pc = "token"
        /\ kind \in AccountBased
        /\ IF ~tokenOk \/ (token # Undefined /\ ~parses)
           THEN ListAdvance(c, ListFailed(call))
           ELSE IF token = Undefined
           THEN ListAdvance(c, ListSkipped(call))
           ELSE /\ calls' = [calls EXCEPT ![c] =
                       [call EXCEPT !.pc = IF kind = "google-dns"
                                              /\ ~TokenCached(tokenCache, token, now)
                                           THEN "oauth" ELSE "fetch",
                                    !.http = call.http + 1]]
                /\ ret' = NoProvRet
                /\ UNCHANGED cache
        /\ UNCHANGED <<now, tokenCache>>
        /\ UNCHANGED <<lastSet, accounts, persisted, secrets, pending, kind, upstream, sshKeyCache, volumeCache>>
        /\ Fault(~tokenOk \/ (token # Undefined /\ ~parses))

\* google getAccessToken(): the token endpoint answers; `!response.ok`
\* throws AuthError, otherwise the managedZones request is sent
ListOAuth(c, ok) ==
    LET call == calls[c]
    IN  /\ call # Idle
        /\ call.op = "list" /\ call.pc = "oauth"
        /\ IF ok
           THEN /\ calls' = [calls EXCEPT ![c] =
                       [call EXCEPT !.pc = "fetch", !.http = call.http + 1]]
                /\ tokenCache' = TokenCacheSet(tokenCache,
                                      GetToken(secrets, call.accts[call.i].id),
                                      IssuedToken, IssuedExpiresIn, now)
                /\ ret' = NoProvRet
                /\ UNCHANGED cache
           ELSE /\ ListAdvance(c, ListFailed(call))
                /\ UNCHANGED tokenCache
        /\ UNCHANGED now
        /\ UNCHANGED <<lastSet, accounts, persisted, secrets, pending, kind, upstream, sshKeyCache, volumeCache>>
        /\ Fault(~ok)

\* fetchDomainsForAccount / fetchServersForAccount settles with the
\* upstream's answer
ListFetch(c, resp) ==
    LET call == calls[c]
        acctId == call.accts[call.i].id
        sent == [call EXCEPT !.http = call.http + RequestsFor(kind, resp) - 1]
        domains == Normalize(kind, acctId, resp)
    IN  /\ call # Idle
        /\ call.op = "list" /\ call.pc = "fetch"
        /\ kind \in AccountBased
        /\ IF FetchThrows(kind, resp)
           THEN ListAdvance(c, ListFailed(sent))
           ELSE ListAdvance(c, [sent EXCEPT !.all = PushDomains(call.all, domains),
                                            !.log = Append(call.log, "ok"),
                                            !.got = Append(call.got, domains)])
        /\ UNCHANGED now
        /\ UNCHANGED <<lastSet, accounts, persisted, secrets, pending, kind, upstream, sshKeyCache, volumeCache>>
        /\ UNCHANGED tokenCache
        /\ Fault(FetchThrows(kind, resp))

\* ionos listDomains() up to `await this.secrets.get('ionos.dns.token')`
IonosListDomains(c) ==
    /\ kind = "ionos-dns"
    /\ FreeCalls # {}
    /\ c = MinFree
    /\ calls' = [calls EXCEPT ![c] =
            [op |-> "list", pc |-> "token", accts |-> <<>>, i |-> 0, all |-> <<>>,
             http |-> 0, reads |-> 1, log |-> <<>>, got |-> <<>>,
             zero |-> NoAccounts(GetByProvider(accounts, kind)), arg |-> NoAcct]]
    /\ ret' = NoProvRet
    /\ UNCHANGED <<now, cache>>
    /\ UNCHANGED <<lastSet, accounts, persisted, secrets, pending, kind, upstream, sshKeyCache, volumeCache>>
    /\ UNCHANGED tokenCache
    /\ UNCHANGED faults

\* the secret read settles: no token returns the `__no_token__` element,
\* otherwise getOrFetch('domains', ...) returns a hit or sends GET /zones
IonosListToken(c, tokenOk) ==
    LET call == calls[c]
        key == AggregateKey(kind)
        token == IF LegacyKey \in DOMAIN secrets THEN secrets[LegacyKey] ELSE Undefined
    IN  /\ call # Idle
        /\ call.op = "list" /\ call.pc = "token"
        /\ kind = "ionos-dns"
        /\ IF ~tokenOk
           THEN /\ ret' = ProvRet("list", "StoreError", <<>>, FALSE, call)
                /\ calls' = [calls EXCEPT ![c] = Idle]
                /\ UNCHANGED cache
           ELSE IF token = Undefined
           THEN /\ ret' = ProvRet("list", "none", <<NoTokenSentinel>>, FALSE, call)
                /\ calls' = [calls EXCEPT ![c] = Idle]
                /\ UNCHANGED cache
           ELSE /\ cache' = GetCache(cache, key, now)
                /\ IF FetchNeeded(cache, key, now)
                   THEN /\ calls' = [calls EXCEPT ![c] =
                               [call EXCEPT !.pc = "fetch", !.http = call.http + 1]]
                        /\ ret' = NoProvRet
                   ELSE /\ ret' = ProvRet("list", "none", GetValue(cache, key, now), FALSE,
                                          call)
                        /\ calls' = [calls EXCEPT ![c] = Idle]
        /\ UNCHANGED now
        /\ UNCHANGED <<lastSet, accounts, persisted, secrets, pending, kind, upstream, sshKeyCache, volumeCache>>
        /\ UNCHANGED tokenCache
        /\ Fault(~tokenOk)

\* the producer settles: `!response.ok` throws out of getOrFetch, otherwise
\* the zones with their records are stored and returned
IonosListFetch(c, resp) ==
    LET call == calls[c]
        sent == [call EXCEPT !.http = call.http + RequestsFor(kind, resp) - 1]
        domains == Normalize(kind, NoAcct, resp)
    IN  /\ call # Idle
        /\ call.op = "list" /\ call.pc = "fetch"
        /\ kind = "ionos-dns"
        /\ IF FetchThrows(kind, resp)
           THEN /\ ret' = ProvRet("list", IF IsAuthError(resp.status) THEN "AuthError"
                                          ELSE "ApiError", <<>>, TRUE, sent)
                /\ UNCHANGED cache
           ELSE /\ cache' = SetCache(cache, AggregateKey(kind), domains, now)
                /\ ret' = ProvRet("list", "none", domains, TRUE, sent)
        /\ calls' = [calls EXCEPT ![c] = Idle]
        /\ UNCHANGED now
        /\ UNCHANGED <<lastSet, accounts, persisted, secrets, pending, kind, upstream, sshKeyCache, volumeCache>>
        /\ UNCHANGED tokenCache
        /\ Fault(FetchThrows(kind, resp))

\* the accountId arguments tried: none (''), every id in the registry, and
\* one id that no account has
AccountIdArgs ==
    {NoAcct, MakeId(kind, MaxAccounts)} \cup {accounts[i].id : i \in 1..Len(accounts)}

\* `accountId ? getById(accountId) : getDefaultForProvider(kind)`
ResolveAccountOrDefault(accts, k, accountId) ==
    IF accountId # NoAcct /\ GetById(accts, accountId) # <<>>
    THEN GetById(accts, accountId)
    ELSE GetDefaultForProvider(accts, k)
ResolveAccount(accts, k, accountId) ==
    IF accountId # NoAcct THEN GetById(accts, accountId) ELSE GetDefaultForProvider(accts, k)

UpdateThrows(c, threw, status, call) ==
    /\ ret' = [ProvRet("update", threw, <<>>, FALSE, call) EXCEPT !.status = status]
    /\ calls' = [calls EXCEPT ![c] = Idle]
    /\ UNCHANGED cache

\* updateRecord(domainId, recordId, newValue, ttl, accountId) up to
\* `await this.accountManager.getToken(account.id)`
UpdateRecord(c, accountId) ==
    LET account == ResolveAccount(accounts, kind, accountId)
    IN  /\ kind \in {"cloudflare", "aws-route53", "google-dns"}
        /\ FreeCalls # {}
        /\ NoneInFlight("update")
        /\ c = MinFree
        /\ IF account = <<>>
           THEN /\ ret' = ProvRet("update", "Error: Kein Account konfiguriert", <<>>, FALSE,
                                  [NoCall EXCEPT !.arg = accountId, !.zero =
                                       NoAccounts(GetByProvider(accounts, kind))])
                /\ UNCHANGED calls
           ELSE /\ calls' = [calls EXCEPT ![c] =
                       [op |-> "update", pc |-> "token", acct |-> account[1].id,
                        http |-> 0, reads |-> 1, log |-> <<>>, got |-> <<>>,
                        zero |-> NoAccounts(GetByProvider(accounts, kind)),
                        arg |-> accountId]]
                /\ ret' = NoProvRet
        /\ UNCHANGED <<now, cache>>
        /\ UNCHANGED <<lastSet, accounts, persisted, secrets, pending, kind, upstream, sshKeyCache, volumeCache>>
        /\ UNCHANGED tokenCache
        /\ UNCHANGED faults

\* ionos updateRecord(domainId, recordId, newValue, ttl) up to
\* `await this.secrets.get('ionos.dns.token')`
IonosUpdateRecord(c) ==
    /\ kind = "ionos-dns"
    /\ FreeCalls # {}
    /\ NoneInFlight("update")
    /\ c = MinFree
    /\ calls' = [calls EXCEPT ![c] =
            [op |-> "update", pc |-> "token", acct |-> NoAcct, http |-> 0, reads |-> 1,
             log |-> <<>>, got |-> <<>>,
             zero |-> NoAccounts(GetByProvider(accounts, kind)), arg |-> NoAcct]]
    /\ ret' = NoProvRet
    /\ UNCHANGED <<now, cache>>
    /\ UNCHANGED <<lastSet, accounts, persisted, secrets, pending, kind, upstream, sshKeyCache, volumeCache>>
    /\ UNCHANGED tokenCache
    /\ UNCHANGED faults

\* the secret read of updateRecord settles: rejected, absent (AuthError),
\* unparsable (aws parseCredentials, google record id / key), or the first
\* request is sent: GET of the current record (cloudflare, ionos), the
\* token exchange (google), the change POST (aws)
UpdateRecordToken(c, tokenOk, parseOk) ==
    LET call == calls[c]
        token == IF kind = "ionos-dns"
                 THEN (IF LegacyKey \in DOMAIN secrets THEN secrets[LegacyKey] ELSE Undefined)
                 ELSE GetToken(secrets, call.acct)
        parses == parseOk \/ kind \notin {"aws-route53", "google-dns"}
    IN  /\ call # Idle
        /\ call.op = "update" /\ call.pc = "token"
        /\ IF ~tokenOk THEN UpdateThrows(c, "StoreError", 0, call)
           ELSE IF token = Undefined THEN UpdateThrows(c, "AuthError", 0, call)
           ELSE IF ~parses THEN UpdateThrows(c, "Error", 0, call)
           ELSE /\ calls' = [calls EXCEPT ![c] =
                       [call EXCEPT !.http = call.http + 1,
                                    !.pc = IF kind = "google-dns"
                                              /\ ~TokenCached(tokenCache, token, now)
                                           THEN "oauth"
                                           ELSE IF kind \in {"aws-route53", "google-dns"}
                                           THEN "write"
                                           ELSE "read"]]
                /\ ret' = NoProvRet
                /\ UNCHANGED cache
        /\ UNCHANGED <<now, tokenCache>>
        /\ UNCHANGED <<lastSet, accounts, persisted, secrets, pending, kind, upstream, sshKeyCache, volumeCache>>
        /\ Fault(~tokenOk \/ (token # Undefined /\ ~parses))

\* google getAccessToken() inside updateRecord settles
UpdateRecordOAuth(c, ok) ==
    LET call == calls[c]
    IN  /\ call # Idle
        /\ call.op = "update" /\ call.pc = "oauth"
        /\ IF ok
           THEN /\ calls' = [calls EXCEPT ![c] =
                       [call EXCEPT !.pc = "write", !.http = call.http + 1]]
                /\ tokenCache' = TokenCacheSet(tokenCache, GetToken(secrets, call.acct),
                                                IssuedToken, IssuedExpiresIn, now)
                /\ ret' = NoProvRet
                /\ UNCHANGED cache
           ELSE /\ UpdateThrows(c, "AuthError", 0, call)
                /\ UNCHANGED tokenCache
        /\ UNCHANGED now
        /\ UNCHANGED <<lastSet, accounts, persisted, secrets, pending, kind, upstream, sshKeyCache, volumeCache>>
        /\ Fault(~ok)

\* the GET of the current record settles (cloudflare, ionos): `!getRes.ok`
\* throws, otherwise the PUT is sent
UpdateRecordRead(c, status) ==
    LET call == calls[c]
    IN  /\ call # Idle
        /\ call.op = "update" /\ call.pc = "read"
        /\ IF status # 200
           THEN UpdateThrows(c, IF IsAuthError(status) THEN "AuthError" ELSE "ApiError",
                             status, call)
           ELSE /\ calls' = [calls EXCEPT ![c] =
                       [call EXCEPT !.pc = "write", !.http = call.http + 1]]
                /\ ret' = NoProvRet
                /\ UNCHANGED cache
        /\ UNCHANGED now
        /\ UNCHANGED <<lastSet, accounts, persisted, secrets, pending, kind, upstream, sshKeyCache, volumeCache>>
        /\ UNCHANGED tokenCache
        /\ Fault(status # 200)

\* updateRecord's last lines: invalidateCache() is this.cache.clear()
AfterWriteKeep(c) == c
AfterWrite(c) == ClearCache(c)

\* the write request settles: `!response.ok` throws ApiError, otherwise
\* invalidateCache() and return
UpdateRecordWrite(c, status) ==
    LET call == calls[c]
    IN  /\ call # Idle
        /\ call.op = "update" /\ call.pc = "write"
        /\ IF status # 200
           THEN UpdateThrows(c, "ApiError", status, call)
           ELSE /\ cache' = AfterWrite(cache)
                /\ ret' = ProvRet("update", "none", <<>>, FALSE, call)
                /\ calls' = [calls EXCEPT ![c] = Idle]
        /\ UNCHANGED now
        /\ UNCHANGED <<lastSet, accounts, persisted, secrets, pending, kind, upstream, sshKeyCache, volumeCache>>
        /\ UNCHANGED tokenCache
        /\ Fault(status # 200)

\* the registries an adapter is run over: up to MaxAccounts accounts created
\* one per millisecond, of the adapter's kind (the last one marked default,
\* or none), after at most one account of another kind
Registries(k) ==
    LET acct(n, p, d) == [id |-> MakeId(p, n - 1), name |-> "n1", provider |-> p,
                          color |-> "green", isDefault |-> d, createdAt |-> n - 1]
        own(r) == {i \in 1..Len(r) : r[i].provider = k}
        ok(r) == /\ (1..Len(r)) \ own(r) \subseteq {1}
                 /\ \A i \in 1..Len(r) :
                        r[i].isDefault => (i \in own(r) /\ \A j \in own(r) : j <= i)
    IN  UNION {{r \in [1..n -> {acct(m, p, d) : m \in 1..n, p \in {k, OtherKind(k)},
                                                 d \in BOOLEAN}] :
                    (\A m \in 1..n : r[m].createdAt = m - 1) /\ ok(r)} : n \in 0..MaxAccounts}

\* the Credential Store over a registry: an account of another kind has its
\* secret; the accounts of the adapter's kind all have theirs when one is
\* marked default, and each has it or not otherwise (and the ionos single
\* token is present or not)
SecretStores(k, r) ==
    LET keysOf(p) == {TokenKey(r[i].id) : i \in {j \in 1..Len(r) : p[j]}}
        foreign == keysOf([j \in 1..Len(r) |-> r[j].provider # k])
        own == keysOf([j \in 1..Len(r) |-> r[j].provider = k])
        marked == \E i \in 1..Len(r) : r[i].isDefault
        legacy == IF k = "ionos-dns" THEN {LegacyKey} ELSE {}
    IN  {[key \in ks \cup foreign |-> "tok1"] :
            ks \in {x \in SUBSET (own \cup legacy) : marked => own \subseteq x}}

InitProvider ==
    /\ now = 0
    /\ cache = EmptyMap
    /\ lastSet = [k \in Keys |-> [data |-> Undefined, timestamp |-> 0]]
    /\ calls = [c \in 1..MaxCalls |-> Idle]
    /\ kind \in AdapterKinds
    /\ accounts \in Registries(kind)
    /\ persisted = accounts
    /\ secrets \in SecretStores(kind, accounts)
    /\ pending = <<>>
    /\ faults = 0
    /\ tokenCache = EmptyMap
    /\ upstream = NoRecord
    /\ sshKeyCache = EmptyMap
    /\ volumeCache = EmptyMap
    /\ ret = NoProvRet

NextProvider ==
    \/ Tick(MaxProvClock)
    \/ \E c \in 1..MaxCalls : ListDomains(c)
    \/ \E c \in 1..MaxCalls, tokenOk \in BOOLEAN, credOk \in BOOLEAN :
          ListToken(c, tokenOk, credOk)
    \/ \E c \in 1..MaxCalls, ok \in BOOLEAN : ListOAuth(c, ok)
    \/ \E c \in 1..MaxCalls, resp \in Responses : ListFetch(c, resp)
    \/ \E c \in 1..MaxCalls : IonosListDomains(c)
    \/ \E c \in 1..MaxCalls, tokenOk \in BOOLEAN : IonosListToken(c, tokenOk)
    \/ \E c \in 1..MaxCalls, resp \in Responses : IonosListFetch(c, resp)
    \/ \E c \in 1..MaxCalls, accountId \in AccountIdArgs : UpdateRecord(c, accountId)
    \/ \E c \in 1..MaxCalls : IonosUpdateRecord(c)
    \/ \E c \in 1..MaxCalls, tokenOk \in BOOLEAN, parseOk \in BOOLEAN :
          UpdateRecordToken(c, tokenOk, parseOk)
    \/ \E c \in 1..MaxCalls, ok \in BOOLEAN : UpdateRecordOAuth(c, ok)
    \/ \E c \in 1..MaxCalls, status \in {200, 401, 500} : UpdateRecordRead(c, status)
    \/ \E c \in 1..MaxCalls, status \in {200, 401, 500} : UpdateRecordWrite(c, status)

SpecProvider == InitProvider /\ [][NextProvider]_vars

-----------------------------------------------------------------------------
(* GoogleDnsProvider.getAccessToken on its own: calls with a key, the      *)
(* token endpoint's answers, the clock.                                    *)


TokRet(threw, token, call) ==
    [op |-> "token", threw |-> threw, token |-> token, http |-> call.http,
     key |-> call.key, stale |-> call.stale]

NoTokRet == [op |-> "none", threw |-> "none", token |-> "", http |-> 0, key |-> "",
             stale |-> ""]


\* getAccessToken(keyJson) up to `await fetch(key.token_uri, ...)`: a cached
\* token that has not expired is returned at once; otherwise the key is
\* parsed (JSON.parse throws on a malformed key) and the assertion is posted
GetAccessToken(c, keyJson, parseOk) ==
    LET stale == IF keyJson \in DOMAIN tokenCache THEN tokenCache[keyJson].token ELSE ""
        call == [op |-> "token", pc |-> "exchange", key |-> keyJson, http |-> 0,
                 stale |-> stale]
    IN  /\ FreeCalls # {}
        /\ c = MinFree
        /\ IF TokenCached(tokenCache, keyJson, now)
           THEN /\ ret' = TokRet("none", tokenCache[keyJson].token, call)
                /\ parseOk
                /\ UNCHANGED <<calls, faults>>
           ELSE IF ~parseOk
           THEN /\ ret' = TokRet("Error", "", call)
                /\ Fault(TRUE)
                /\ UNCHANGED calls
           ELSE /\ calls' = [calls EXCEPT ![c] = [call EXCEPT !.http = 1]]
                /\ ret' = NoTokRet
                /\ UNCHANGED faults
        /\ UNCHANGED tokenCache
        /\ UNCHANGED <<now, cache, lastSet, accounts, persisted, secrets, pending, kind, upstream, sshKeyCache, volumeCache>>

\* the token endpoint answers: `!response.ok` throws AuthError, otherwise
\* the token is cached with its expiry and returned; the endpoint does not
\* hand out again the token this key had before
AccessTokenResponse(c, ok, token, expiresIn) ==
    LET call == calls[c]
    IN  /\ call # Idle
        /\ call.op = "token" /\ call.pc = "exchange"
        /\ IF ok
           THEN /\ token # call.stale
                /\ tokenCache' = TokenCacheSet(tokenCache, call.key, token, expiresIn, now)
                /\ ret' = TokRet("none", token, call)
           ELSE /\ ret' = TokRet("AuthError", "", call)
                /\ UNCHANGED tokenCache
        /\ Fault(~ok)
        /\ calls' = [calls EXCEPT ![c] = Idle]
        /\ UNCHANGED <<now, cache, lastSet, accounts, persisted, secrets, pending, kind, upstream, sshKeyCache, volumeCache>>

InitToken ==
    /\ now = 0
    /\ cache = EmptyMap
    /\ lastSet = [k \in Keys |-> [data |-> Undefined, timestamp |-> 0]]
    /\ calls = [c \in 1..MaxCalls |-> Idle]
    /\ ret = NoTokRet
    /\ accounts = <<>>
    /\ persisted = <<>>
    /\ secrets = EmptyMap
    /\ pending = <<>>
    /\ kind = "google-dns"
    /\ faults = 0
    /\ tokenCache = EmptyMap
    /\ upstream = NoRecord
    /\ sshKeyCache = EmptyMap
    /\ volumeCache = EmptyMap

NextToken ==
    \/ Tick(MaxClock)
    \/ \E c \in 1..MaxCalls, keyJson \in {"tok1", "tok2"}, parseOk \in BOOLEAN :
          GetAccessToken(c, keyJson, parseOk)
    \/ \E c \in 1..MaxCalls, ok \in BOOLEAN, token \in {"at1", "at2"},
          expiresIn \in {1, 2, 3} : AccessTokenResponse(c, ok, token, expiresIn)

SpecToken == InitToken /\ [][NextToken]_vars

-----------------------------------------------------------------------------
(* Packed record ids of the aws-route53 and google-dns adapters.  A string *)
(* is the sequence of its characters.                                      *)

MaxNameLen == 3

\* the strings of 1..n characters over an alphabet
Strings(alphabet, n) == UNION {[1..m -> alphabet] : m \in 1..n}

\* String.prototype.indexOf(sep) as a 1-based position, 0 when absent
IndexOf(str, sep) ==
    LET at(i) == i + Len(sep) - 1 <= Len(str) /\ SubSeq(str, i, i + Len(sep) - 1) = sep
    IN  IF \E i \in 1..Len(str) : at(i)
        THEN CHOOSE i \in 1..Len(str) : at(i) /\ \A j \in 1..(i - 1) : ~at(j)
        ELSE 0

\* String.prototype.lastIndexOf('-') as a 1-based position, 0 when absent
LastIndexOf(str, ch) ==
    IF \E i \in 1..Len(str) : str[i] = ch
    THEN CHOOSE i \in 1..Len(str) : str[i] = ch /\ \A j \in (i + 1)..Len(str) : str[j] # ch
    ELSE 0

\* String.prototype.split(sep)
RECURSIVE Split(_, _)
Split(str, sep) ==
    IF IndexOf(str, sep) = 0 THEN <<str>>
    ELSE <<SubSeq(str, 1, IndexOf(str, sep) - 1)>>
             \o Split(SubSeq(str, IndexOf(str, sep) + Len(sep), Len(str)), sep)

\* google listing: id: `${zone.name}::${r.name}::${r.type}`
PackGoogleDashed(zone, name, type) == zone \o <<"-">> \o name \o <<"-">> \o type
PackGoogle(zone, name, type) == zone \o <<":", ":">> \o name \o <<":", ":">> \o type

\* google updateRecord: recordId.split('::'), `parts.length !== 3` throws
UnpackGoogle(recordId) ==
    LET parts == Split(recordId, <<":", ":">>)
    IN  IF Len(parts) # 3
        THEN [ok |-> FALSE, zone |-> <<>>, name |-> <<>>, type |-> <<>>]
        ELSE [ok |-> TRUE, zone |-> parts[1], name |-> parts[2], type |-> parts[3]]

\* aws parseRecordSetsXml: id: `${match[1]}-${type}`
PackAws(name, type) == name \o <<"-">> \o type

\* aws updateRecord: lastIndexOf('-'), substring(0, lastDash),
\* substring(lastDash + 1); nothing is thrown
UnpackAws(recordId) ==
    LET lastDash == LastIndexOf(recordId, "-")
    IN  [ok |-> TRUE, zone |-> <<>>,
         name |-> SubSeq(recordId, 1, lastDash - 1),
         type |-> SubSeq(recordId, lastDash + 1, Len(recordId))]


\* a record of a listing: its id is packed from what the upstream listed
ListRecord(zone, name, type) ==
    /\ ret.op \in {"none", "unpacked"}
    /\ ret' = [op |-> "listed", zone |-> IF kind = "google-dns" THEN zone ELSE <<>>,
               name |-> name, type |-> type,
               id |-> IF kind = "google-dns" THEN PackGoogle(zone, name, type)
                      ELSE PackAws(name, type),
               parts |-> [ok |-> FALSE, zone |-> <<>>, name |-> <<>>, type |-> <<>>]]
    /\ UNCHANGED <<now, cache, lastSet, calls, accounts, persisted, secrets, pending, kind, faults, tokenCache, upstream, sshKeyCache, volumeCache>>

\* updateRecord(domainId, recordId, ...) on a listed record: the id is unpacked
UnpackRecordId ==
    /\ ret.op = "listed"
    /\ ret' = [ret EXCEPT !.op = "unpacked",
                          !.parts = IF kind = "google-dns" THEN UnpackGoogle(ret.id)
                                    ELSE UnpackAws(ret.id)]
    /\ UNCHANGED <<now, cache, lastSet, calls, accounts, persisted, secrets, pending, kind, faults, tokenCache, upstream, sshKeyCache, volumeCache>>

InitPacked ==
    /\ now = 0
    /\ cache = EmptyMap
    /\ lastSet = [k \in Keys |-> [data |-> Undefined, timestamp |-> 0]]
    /\ calls = [c \in 1..MaxCalls |-> Idle]
    /\ ret = [op |-> "none"]
    /\ accounts = <<>>
    /\ persisted = <<>>
    /\ secrets = EmptyMap
    /\ pending = <<>>
    /\ kind \in {"aws-route53", "google-dns"}
    /\ faults = 0
    /\ tokenCache = EmptyMap
    /\ upstream = NoRecord
    /\ sshKeyCache = EmptyMap
    /\ volumeCache = EmptyMap

NextPacked ==
    \/ \E zone \in Strings({"z", "-"}, 2),
          name \in Strings({"a", "-", "."}, MaxNameLen),
          type \in {<<"A">>, <<"M", "X">>, <<"A", "A", "A", "A">>} :
          ListRecord(zone, name, type)
    \/ UnpackRecordId

SpecPacked == InitPacked /\ [][NextPacked]_vars

-----------------------------------------------------------------------------
(* updateRecord of the DNS adapters, from the resolved account's secret    *)
(* on: what is read from the upstream and what is written to it.           *)


\* aws, google: `ttl || 300`; a ttl argument of 0 is the omitted argument
\* (undefined and 0 are both falsy)
DefaultTtl == 300

\* the adapters that GET the current record before the write
ReadsCurrent(k) == k \in {"cloudflare", "ionos-dns"}

\* the body of the write request
Payload(k, call, newValue, ttl) ==
    IF ReadsCurrent(k)
    THEN [name |-> call.current.name, type |-> call.current.type, value |-> newValue,
          ttl |-> IF ttl # 0 THEN ttl ELSE call.current.ttl]
    ELSE [name |-> call.name, type |-> call.type, value |-> newValue,
          ttl |-> IF ttl # 0 THEN ttl ELSE DefaultTtl]


\* updateRecord(domainId, recordId, newValue, ttl) up to its first request:
\* the GET of the current record, or (aws, google) the write itself, whose
\* name and type come from the record id
WriteUpdateRecord(c, newValue, ttl) ==
    /\ FreeCalls # {}
    /\ c = MinFree
    /\ calls' = [calls EXCEPT ![c] =
            [op |-> "update", pc |-> IF ReadsCurrent(kind) THEN "read" ELSE "write",
             name |-> upstream.name, type |-> upstream.type, newValue |-> newValue,
             ttl |-> ttl, current |-> NoRecord]]
    /\ ret' = [op |-> "none"]
    /\ UNCHANGED upstream
    /\ UNCHANGED <<now, cache, lastSet, accounts, persisted, secrets, pending, kind, faults, tokenCache, sshKeyCache, volumeCache>>

\* the GET answers: not ok throws, otherwise the write is sent
WriteRead(c, ok) ==
    LET call == calls[c]
    IN  /\ call # Idle
        /\ call.op = "update" /\ call.pc = "read"
        /\ IF ok
           THEN /\ calls' = [calls EXCEPT ![c] =
                       [call EXCEPT !.pc = "write", !.current = upstream]]
                /\ ret' = [op |-> "none"]
           ELSE /\ calls' = [calls EXCEPT ![c] = Idle]
                /\ ret' = [op |-> "update", threw |-> "ApiError"]
        /\ UNCHANGED upstream
        /\ UNCHANGED <<now, cache, lastSet, accounts, persisted, secrets, pending, kind, faults, tokenCache, sshKeyCache, volumeCache>>

\* the write request arrives and is answered: ok replaces the record
WriteSend(c, ok) ==
    LET call == calls[c]
        sent == Payload(kind, call, call.newValue, call.ttl)
    IN  /\ call # Idle
        /\ call.op = "update" /\ call.pc = "write"
        /\ IF ok
           THEN /\ upstream' = sent
                /\ ret' = [op |-> "update", threw |-> "none", ttl |-> call.ttl,
                           sent |-> sent, before |-> upstream]
           ELSE /\ ret' = [op |-> "update", threw |-> "ApiError"]
                /\ UNCHANGED upstream
        /\ calls' = [calls EXCEPT ![c] = Idle]
        /\ UNCHANGED <<now, cache, lastSet, accounts, persisted, secrets, pending, kind, faults, tokenCache, sshKeyCache, volumeCache>>

InitWrite ==
    /\ now = 0
    /\ cache = EmptyMap
    /\ lastSet = [k \in Keys |-> [data |-> Undefined, timestamp |-> 0]]
    /\ calls = [c \in 1..MaxCalls |-> Idle]
    /\ ret = [op |-> "none"]
    /\ accounts = <<>>
    /\ persisted = <<>>
    /\ secrets = EmptyMap
    /\ pending = <<>>
    /\ kind \in {"cloudflare", "aws-route53", "google-dns", "ionos-dns"}
    /\ faults = 0
    /\ tokenCache = EmptyMap
    /\ upstream \in {[name |-> "www", type |-> "A", value |-> "v1", ttl |-> t] :
                        t \in {60, 3600}}
    /\ sshKeyCache = EmptyMap
    /\ volumeCache = EmptyMap

NextWrite ==
    \/ \E c \in 1..MaxCalls, newValue \in {"v1", "v2"}, ttl \in {0, 120} :
          WriteUpdateRecord(c, newValue, ttl)
    \/ \E c \in 1..MaxCalls, ok \in BOOLEAN : WriteRead(c, ok)
    \/ \E c \in 1..MaxCalls, ok \in BOOLEAN : WriteSend(c, ok)

SpecWrite == InitWrite /\ [][NextWrite]_vars

-----------------------------------------------------------------------------
(* AwsRoute53Provider.parseCredentials on its own, over stored secrets     *)
(* made of key characters and the separator.                               *)

MaxCredLen == 4
MaxUrlLen == 3


\* parseCredentials(credentials):
\* `const [accessKeyId, secretAccessKey] = credentials.split(':')` takes the
\* first two parts; a part that is missing (undefined) is <<>>, which is
\* falsy like the empty string
ParseCredentials(credentials) ==
    LET split == Split(credentials, <<":">>)
        parts == [accessKeyId |-> split[1],
                  secretAccessKey |-> IF Len(split) >= 2 THEN split[2] ELSE <<>>]
    IN  /\ ret' = IF parts.accessKeyId = <<>> \/ parts.secretAccessKey = <<>>
                  THEN [op |-> "parseCredentials", threw |-> "FormatError",
                        credentials |-> credentials, accessKeyId |-> <<>>,
                        secretAccessKey |-> <<>>]
                  ELSE [op |-> "parseCredentials", threw |-> "none",
                        credentials |-> credentials, accessKeyId |-> parts.accessKeyId,
                        secretAccessKey |-> parts.secretAccessKey]
        /\ UNCHANGED <<now, cache, lastSet, calls, accounts, persisted, secrets, pending, kind,
                       faults, tokenCache, upstream, sshKeyCache, volumeCache>>

InitCredentials ==
    /\ now = 0
    /\ cache = EmptyMap
    /\ lastSet = [k \in Keys |-> [data |-> Undefined, timestamp |-> 0]]
    /\ calls = [c \in 1..MaxCalls |-> Idle]
    /\ ret = [op |-> "none"]
    /\ accounts = <<>>
    /\ persisted = <<>>
    /\ secrets = EmptyMap
    /\ pending = <<>>
    /\ kind = "aws-route53"
    /\ faults = 0
    /\ tokenCache = EmptyMap
    /\ upstream = NoRecord
    /\ sshKeyCache = EmptyMap
    /\ volumeCache = EmptyMap

NextCredentials ==
    \E credentials \in Strings({"k", "s", ":"}, MaxCredLen) \cup {<<>>} :
        ParseCredentials(credentials)

SpecCredentials == InitCredentials /\ [][NextCredentials]_vars

-----------------------------------------------------------------------------
(* AccountManager.migrateFromLegacy: the single-token secrets of v0.1.x    *)
(* become default accounts, ionos first, then hetzner.                     *)

\* the providers migrated, in the order of the code, with the legacy secret
\* key, the account name and the colour of each
MigratedKinds == <<"ionos-dns", "hetzner-cloud">>
LegacyKeys == <<<<"ionos.dns.token", "", 0>>, <<"hetzner.cloud.token", "", 0>>>>

\* hasAccountsForProvider(provider)
HasNoAccountsEver(accts, provider) == FALSE
HasAccountsForProvider(accts, provider) ==
    \E i \in 1..Len(accts) : accts[i].provider = provider

MigRet(threw, value, call) ==
    [op |-> "migrate", threw |-> threw, value |-> value, before |-> call.before,
     prev |-> IF ret.op = "migrate" /\ ret.threw = "none"
              THEN (IF ret.value THEN "true" ELSE "false") ELSE "none"]

NoMigRet ==
    [op |-> "none", threw |-> "none", value |-> FALSE,
     before |-> [accounts |-> <<>>, secrets |-> EmptyMap], prev |-> "none"]


\* the call goes on to the next provider's `await this.secrets.get(...)`, or
\* returns `migrated` after the last one
MigrateNext(c, call, migrated) ==
    IF call.i < Len(MigratedKinds)
    THEN /\ calls' = [calls EXCEPT ![c] =
                [call EXCEPT !.pc = "get", !.i = call.i + 1, !.migrated = migrated]]
         /\ UNCHANGED ret
    ELSE /\ calls' = [calls EXCEPT ![c] = Idle]
         /\ ret' = MigRet("none", migrated, call)

MigrateThrows(c, call) ==
    /\ calls' = [calls EXCEPT ![c] = Idle]
    /\ ret' = MigRet("StoreError", FALSE, call)

\* migrateFromLegacy() up to `await this.secrets.get('ionos.dns.token')`; the
\* runs explored have one call at a time (activate() awaits it)
MigrateFromLegacy(c) ==
    /\ NoneInFlight("migrate")
    /\ c = MinFree
    /\ calls' = [calls EXCEPT ![c] =
            [op |-> "migrate", pc |-> "get", i |-> 1, migrated |-> FALSE, id |-> NoAcct,
             token |-> Undefined,
             before |-> [accounts |-> accounts, secrets |-> secrets]]]
    /\ UNCHANGED <<ret, accounts, persisted, secrets, faults>>
    /\ UNCHANGED <<now, cache, lastSet, kind, pending, tokenCache, upstream, sshKeyCache, volumeCache>>

\* the legacy secret is read: when there is one and the provider has no
\* account, addAccount(name, provider, legacyToken, color, true) runs up to
\* its `await this.secrets.store(...)`
MigrateGet(c) ==
    LET call == calls[c]
        provider == MigratedKinds[call.i]
        legacyToken == IF LegacyKeys[call.i] \in DOMAIN secrets
                       THEN secrets[LegacyKeys[call.i]] ELSE Undefined
        id == MakeId(provider, now)
        account == [id |-> id, provider |-> provider, isDefault |-> TRUE, createdAt |-> now,
                    name |-> <<"IONOS (migriert)", "Hetzner (migriert)">>[call.i],
                    color |-> <<"blue", "orange">>[call.i]]
    IN  /\ call # Idle
        /\ call.op = "migrate" /\ call.pc = "get"
        /\ IF legacyToken # Undefined /\ ~HasAccountsForProvider(accounts, provider)
           THEN /\ accounts' = Append(UnsetDefaults(accounts, provider), account)
                /\ calls' = [calls EXCEPT ![c] =
                       [call EXCEPT !.pc = "store", !.id = id, !.token = legacyToken]]
                /\ UNCHANGED ret
           ELSE /\ MigrateNext(c, call, call.migrated)
                /\ UNCHANGED accounts
        /\ UNCHANGED <<persisted, secrets, faults>>
        /\ UNCHANGED <<now, cache, lastSet, kind, pending, tokenCache, upstream, sshKeyCache, volumeCache>>

\* addAccount: secrets.store(`devops.token.${id}`, token) resolves or rejects
MigrateStore(c, storeOk) ==
    LET call == calls[c]
    IN  /\ call # Idle
        /\ call.op = "migrate" /\ call.pc = "store"
        /\ IF storeOk
           THEN /\ secrets' = MapSet(secrets, TokenKey(call.id), call.token)
                /\ calls' = [calls EXCEPT ![c] = [call EXCEPT !.pc = "save"]]
                /\ UNCHANGED ret
           ELSE /\ MigrateThrows(c, call)
                /\ UNCHANGED secrets
        /\ Fault(~storeOk)
        /\ UNCHANGED <<accounts, persisted>>
        /\ UNCHANGED <<now, cache, lastSet, kind, pending, tokenCache, upstream, sshKeyCache, volumeCache>>

\* addAccount: save(), after which the legacy secret is deleted
MigrateSave(c) ==
    LET call == calls[c]
    IN  /\ call # Idle
        /\ call.op = "migrate" /\ call.pc = "save"
        /\ persisted' = accounts
        /\ calls' = [calls EXCEPT ![c] = [call EXCEPT !.pc = "delete"]]
        /\ UNCHANGED <<ret, accounts, secrets, faults>>
        /\ UNCHANGED <<now, cache, lastSet, kind, pending, tokenCache, upstream, sshKeyCache, volumeCache>>

\* secrets.delete(legacy key) resolves (migrated = true) or rejects
MigrateDelete(c, deleteOk) ==
    LET call == calls[c]
    IN  /\ call # Idle
        /\ call.op = "migrate" /\ call.pc = "delete"
        /\ IF deleteOk
           THEN /\ secrets' = MapDelete(secrets, LegacyKeys[call.i])
                /\ MigrateNext(c, call, TRUE)
           ELSE /\ MigrateThrows(c, call)
                /\ UNCHANGED secrets
        /\ Fault(~deleteOk)
        /\ UNCHANGED <<accounts, persisted>>
        /\ UNCHANGED <<now, cache, lastSet, kind, pending, tokenCache, upstream, sshKeyCache, volumeCache>>

\* the stores a start-up finds over a registry of at most one account of a
\* migrated provider: the account's token, and either legacy secret or not
MigrateSecretStores(r) ==
    LET own == {TokenKey(r[i].id) : i \in 1..Len(r)}
        legacy == {LegacyKeys[i] : i \in 1..Len(LegacyKeys)}
    IN  {[key \in own \cup ks |-> IF key \in own THEN "tok1" ELSE "tok2"] :
            ks \in SUBSET legacy}

InitMigrate ==
    /\ now = 0
    /\ cache = EmptyMap
    /\ lastSet = [k \in Keys |-> [data |-> Undefined, timestamp |-> 0]]
    /\ calls = [c \in 1..MaxCalls |-> Idle]
    /\ ret = NoMigRet
    /\ accounts \in {<<>>} \cup
                     {<<[id |-> MakeId(p, 0), name |-> "n1", provider |-> p,
                         color |-> "green", isDefault |-> d, createdAt |-> 0]>> :
                         p \in {"ionos-dns", "hetzner-cloud"}, d \in BOOLEAN}
    /\ persisted = accounts
    /\ secrets \in MigrateSecretStores(accounts)
    /\ pending = <<>>
    /\ kind = "hetzner-cloud"
    /\ faults = 0
    /\ tokenCache = EmptyMap
    /\ upstream = NoRecord
    /\ sshKeyCache = EmptyMap
    /\ volumeCache = EmptyMap

NextMigrate ==
    \/ Tick(MaxAcctClock)
    \/ \E c \in 1..MaxCalls : MigrateFromLegacy(c)
    \/ \E c \in 1..MaxCalls : MigrateGet(c)
    \/ \E c \in 1..MaxCalls, storeOk \in BOOLEAN : MigrateStore(c, storeOk)
    \/ \E c \in 1..MaxCalls : MigrateSave(c)
    \/ \E c \in 1..MaxCalls, deleteOk \in BOOLEAN : MigrateDelete(c, deleteOk)

SpecMigrate == InitMigrate /\ [][NextMigrate]_vars

-----------------------------------------------------------------------------
(* AccountManager.getDefaultForProvider on its own, over the registries    *)
(* that initialize() can load: accounts in creation order, any of them     *)
(* marked default.                                                         *)

MaxRegistry == 3

DefaultKinds == {"cloudflare", "github"}


\* a caller asks for the default account of a provider
GetDefaultCall(provider) ==
    /\ ret' = [op |-> "getDefaultForProvider", provider |-> provider,
               result |-> GetDefaultForProvider(accounts, provider)]
    /\ UNCHANGED <<now, cache, lastSet, calls, accounts, persisted, secrets, pending, kind,
                   faults, tokenCache, upstream, sshKeyCache, volumeCache>>

InitDefault ==
    /\ now = 0
    /\ cache = EmptyMap
    /\ lastSet = [k \in Keys |-> [data |-> Undefined, timestamp |-> 0]]
    /\ calls = [c \in 1..MaxCalls |-> Idle]
    /\ ret = [op |-> "none", provider |-> "", result |-> <<>>]
    /\ accounts \in UNION {{r \in [1..n -> [id : {MakeId(q, t) : q \in DefaultKinds,
                                                                t \in 0..(n - 1)},
                                            name : {"n1"}, provider : DefaultKinds,
                                            color : {"green"}, isDefault : BOOLEAN,
                                            createdAt : 0..(n - 1)]] :
                                \A m \in 1..n : /\ r[m].createdAt = m - 1
                                                /\ r[m].id = MakeId(r[m].provider, m - 1)} :
                            n \in 0..MaxRegistry}
    /\ persisted = accounts
    /\ secrets = EmptyMap
    /\ pending = <<>>
    /\ kind = "cloudflare"
    /\ faults = 0
    /\ tokenCache = EmptyMap
    /\ upstream = NoRecord
    /\ sshKeyCache = EmptyMap
    /\ volumeCache = EmptyMap

NextDefault == \E provider \in DefaultKinds : GetDefaultCall(provider)

SpecDefault == InitDefault /\ [][NextDefault]_vars

-----------------------------------------------------------------------------
(* HetznerCloudProvider: the lifecycle actions on a server and the three   *)
(* caches (servers, SSH keys, volumes) that the listings fill.             *)

Resources == {"servers", "sshKeys", "volumes"}

\* the endpoint segment each lifecycle method posts to: rebootServer,
\* powerOffServer, powerOnServer, resetServer, enableRescueMode, createSnapshot
LifecycleActions == {"reboot", "poweroff", "poweron", "reset", "enable_rescue", "create_image"}

\* the key each listing passes to getOrFetch
ResourceKey(res) ==
    IF res = "servers" THEN "all-servers"
    ELSE IF res = "sshKeys" THEN "all-ssh-keys"
    ELSE "all-volumes"

CacheOf(res) ==
    IF res = "servers" THEN cache ELSE IF res = "sshKeys" THEN sshKeyCache ELSE volumeCache

\* the three caches after one of them became c
CachesWith(res, c) ==
    /\ cache' = IF res = "servers" THEN c ELSE cache
    /\ sshKeyCache' = IF res = "sshKeys" THEN c ELSE sshKeyCache
    /\ volumeCache' = IF res = "volumes" THEN c ELSE volumeCache

\* invalidateCache()
InvalidateServersOnly ==
    /\ cache' = [k \in {} |-> "undefined"]
    /\ UNCHANGED <<sshKeyCache, volumeCache>>
HetznerInvalidateCache ==
    /\ cache' = ClearCache(cache)
    /\ sshKeyCache' = ClearCache(sshKeyCache)
    /\ volumeCache' = ClearCache(volumeCache)

LifeRet(op, threw, call) ==
    [op |-> op, threw |-> threw, action |-> call.action,
     before |-> <<DOMAIN cache, DOMAIN sshKeyCache, DOMAIN volumeCache>>]

NoLifeRet == [op |-> "none", threw |-> "none", action |-> "", before |-> <<{}, {}, {}>>]

\* listServers() / listSshKeys() / listVolumes(): without accounts nothing
\* is cached; otherwise getOrFetch returns the fresh entry or starts the
\* aggregation; the runs explored have at most one listing in flight at a
\* time (it overlaps the lifecycle action freely)
ListResource(c, res) ==
    LET key == ResourceKey(res)
        held == CacheOf(res)
    IN  /\ FreeCalls # {}
        /\ c = MinFree
        /\ NoneInFlight("list")
        /\ IF NoAccounts(GetByProvider(accounts, kind))
           THEN /\ UNCHANGED <<cache, sshKeyCache, volumeCache, calls>>
           ELSE /\ CachesWith(res, GetCache(held, key, now))
                /\ IF FetchNeeded(held, key, now)
                   THEN calls' = [calls EXCEPT ![c] = [op |-> "list", pc |-> "fetch", res |-> res]]
                   ELSE UNCHANGED calls
        /\ ret' = NoLifeRet
        /\ UNCHANGED <<now, lastSet, accounts, persisted, secrets, pending, kind, faults, tokenCache, upstream>>

\* the aggregation is done: getOrFetch stores what it collected
ListResourceDone(c) ==
    LET call == calls[c]
    IN  /\ call # Idle
        /\ call.op = "list"
        /\ CachesWith(call.res, SetCache(CacheOf(call.res), ResourceKey(call.res), "v1", now))
        /\ calls' = [calls EXCEPT ![c] = Idle]
        /\ ret' = NoLifeRet
        /\ UNCHANGED <<now, lastSet, accounts, persisted, secrets, pending, kind, faults, tokenCache, upstream>>

LifecycleThrows(c, threw, call) ==
    /\ ret' = LifeRet("lifecycle", threw, call)
    /\ calls' = [calls EXCEPT ![c] = Idle]
    /\ UNCHANGED <<cache, sshKeyCache, volumeCache>>

\* getTokenForAccount(accountId) up to `await this.accountManager.getToken`
GetTokenForAccount(c, call, nextPc) ==
    LET account == ResolveAccount(accounts, kind, call.arg)
    IN  IF account = <<>>
        THEN LifecycleThrows(c, "Error", call)
        ELSE /\ calls' = [calls EXCEPT ![c] =
                    [call EXCEPT !.pc = nextPc, !.account = account[1].id]]
             /\ ret' = NoLifeRet
             /\ UNCHANGED <<cache, sshKeyCache, volumeCache>>

\* rebootServer(id, accountId) and the five like it, up to the first await;
\* the runs explored have at most one lifecycle action in flight at a time
LifecycleAction(c, action, accountId) ==
    /\ FreeCalls # {}
    /\ c = MinFree
    /\ NoneInFlight("lifecycle")
    /\ GetTokenForAccount(c, [op |-> "lifecycle", pc |-> "start", action |-> action,
                              arg |-> accountId, account |-> NoAcct], "token")
    /\ UNCHANGED <<now, lastSet, accounts, persisted, secrets, pending, kind, faults, tokenCache, upstream>>

\* the method's own getTokenForAccount resumes: no secret throws AuthError;
\* otherwise performAction starts with getTokenForAccount once more
LifecycleToken(c) ==
    LET call == calls[c]
    IN  /\ call # Idle
        /\ call.op = "lifecycle" /\ call.pc = "token"
        /\ IF GetToken(secrets, call.account) = Undefined
           THEN LifecycleThrows(c, "AuthError", call)
           ELSE GetTokenForAccount(c, call, "performToken")
        /\ UNCHANGED <<now, lastSet, accounts, persisted, secrets, pending, kind, faults, tokenCache, upstream>>

\* performAction's getTokenForAccount resumes and the POST is sent
PerformActionToken(c) ==
    LET call == calls[c]
    IN  /\ call # Idle
        /\ call.op = "lifecycle" /\ call.pc = "performToken"
        /\ IF GetToken(secrets, call.account) = Undefined
           THEN LifecycleThrows(c, "AuthError", call)
           ELSE /\ calls' = [calls EXCEPT ![c] = [call EXCEPT !.pc = "post"]]
                /\ ret' = NoLifeRet
                /\ UNCHANGED <<cache, sshKeyCache, volumeCache>>
        /\ UNCHANGED <<now, lastSet, accounts, persisted, secrets, pending, kind, faults, tokenCache, upstream>>

\* the POST is answered: a non-2xx status or an action error in the body
\* throws; otherwise the method calls invalidateCache() and returns
PerformActionResponse(c, status, actionError) ==
    LET call == calls[c]
    IN  /\ call # Idle
        /\ call.op = "lifecycle" /\ call.pc = "post"
        /\ IF status # 200
           THEN LifecycleThrows(c, IF IsAuthError(status) THEN "AuthError" ELSE "ApiError", call)
           ELSE IF actionError
           THEN LifecycleThrows(c, "Error", call)
           ELSE /\ HetznerInvalidateCache
                /\ ret' = LifeRet("lifecycle", "none", call)
                /\ calls' = [calls EXCEPT ![c] = Idle]
        /\ UNCHANGED <<now, lastSet, accounts, persisted, secrets, pending, kind, faults, tokenCache, upstream>>

InitLifecycle ==
    /\ now = 0
    /\ cache = EmptyMap
    /\ lastSet = [k \in Keys |-> [data |-> Undefined, timestamp |-> 0]]
    /\ calls = [c \in 1..MaxCalls |-> Idle]
    /\ kind = "hetzner-cloud"
    /\ accounts \in Registries(kind)
    /\ persisted = accounts
    /\ secrets \in SecretStores(kind, accounts)
    /\ pending = <<>>
    /\ faults = 0
    /\ tokenCache = EmptyMap
    /\ upstream = NoRecord
    /\ sshKeyCache = EmptyMap
    /\ volumeCache = EmptyMap
    /\ ret = NoLifeRet

NextLifecycle ==
    \/ Tick(MaxProvClock)
    \/ \E c \in 1..MaxCalls, res \in Resources : ListResource(c, res)
    \/ \E c \in 1..MaxCalls : ListResourceDone(c)
    \/ \E c \in 1..MaxCalls, action \in LifecycleActions, accountId \in AccountIdArgs :
          LifecycleAction(c, action, accountId)
    \/ \E c \in 1..MaxCalls : LifecycleToken(c)
    \/ \E c \in 1..MaxCalls : PerformActionToken(c)
    \/ \E c \in 1..MaxCalls, status \in {200, 401, 500}, actionError \in BOOLEAN :
          PerformActionResponse(c, status, actionError)

SpecLifecycle == InitLifecycle /\ [][NextLifecycle]_vars

-----------------------------------------------------------------------------
(* The devops.deleteAccount command beside the cloudflare adapter's        *)
(* listings: deleteAccount, then onAccountsChanged().                      *)

\* the command after `await accountManager.deleteAccount(account.id)` has
\* resolved with save(): onAccountsChanged() runs invalidateCache() of every
\* adapter before anything else is scheduled
DeleteAccountDone(i) ==
    /\ i \in 1..Len(pending)
    /\ pending[i].op = "deleteAccount"
    /\ persisted' = accounts
    /\ cache' = ClearCache(cache)
    /\ ret' = AcctRet(pending[i].op, pending[i].id, "none")
    /\ pending' = RemoveAt(pending, i)
    /\ UNCHANGED <<now, lastSet, calls, accounts, secrets, kind, faults, tokenCache,
                   upstream, sshKeyCache, volumeCache>>

InitDelete ==
    /\ now = 0
    /\ cache = EmptyMap
    /\ lastSet = [k \in Keys |-> [data |-> Undefined, timestamp |-> 0]]
    /\ calls = [c \in 1..MaxCalls |-> Idle]
    /\ kind = "cloudflare"
    /\ accounts \in Registries(kind)
    /\ persisted = accounts
    /\ secrets \in SecretStores(kind, accounts)
    /\ pending = <<>>
    /\ faults = 0
    /\ tokenCache = EmptyMap
    /\ upstream = NoRecord
    /\ sshKeyCache = EmptyMap
    /\ volumeCache = EmptyMap
    /\ ret = NoProvRet

NextDelete ==
    \/ Tick(MaxProvClock)
    \/ \E c \in 1..MaxCalls : ListDomains(c)
    \/ \E c \in 1..MaxCalls, tokenOk \in BOOLEAN : ListToken(c, tokenOk, TRUE)
    \/ \E c \in 1..MaxCalls, resp \in Responses : ListFetch(c, resp)
    \/ \E i \in 1..Len(accounts), deleteOk \in BOOLEAN :
          DeleteAccount(accounts[i].id, deleteOk)
    \/ \E i \in 1..MaxPending : DeleteAccountDone(i)

SpecDelete == InitDelete /\ [][NextDelete]_vars

-----------------------------------------------------------------------------
(* What reaches util/logging.ts from the google adapter's listing: the     *)
(* message, and the text interpolated into it, over the key material       *)
(* stored for the one account.                                             *)

\* JSON.parse(keyJson) over texts of `{`, `}` and `a`, of which only `{}` is
\* JSON: the 1-based position of the character the parser rejects, 0 when it
\* rejects none (the text is `{}` or runs out before its end)
JsonErrorAt(text) ==
    LET json == <<"{", "}">>
        bad(i) == i > Len(json) \/ text[i] # json[i]
    IN  IF \E i \in 1..Len(text) : bad(i)
        THEN CHOOSE i \in 1..Len(text) : bad(i) /\ \A j \in 1..(i - 1) : ~bad(j)
        ELSE 0

\* the SyntaxError's message: the runtime names the rejected character
\* (`Unexpected token a in JSON at position 1`) or, on the engines that
\* quote the source, the character and the text itself when it is shorter
\* than 21 characters (`Unexpected token 'a', "{a" is not valid JSON`)
JsonParseMessage(quotesSource, text) ==
    IF JsonErrorAt(text) = 0 THEN <<>>
    ELSE IF quotesSource THEN <<text[JsonErrorAt(text)]>> \o text
    ELSE <<text[JsonErrorAt(text)]>>

\* google listDomains() for the account: getAccessToken(keyJson) parses the
\* key; a SyntaxError is caught by the loop and handed to
\* logError(TAG, `Failed to fetch domains for account ${account.name}`, err),
\* which appends `: ${error.message}`
GoogleListLog(quotesSource) ==
    LET key == TokenKey(accounts[1].id)
    IN  /\ key \in DOMAIN secrets
        /\ ret' = IF secrets[key] = <<"{", "}">>
                  THEN [op |-> "logInfo", message |-> "Fetching zones for account",
                        detail |-> <<>>]
                  ELSE [op |-> "logError", message |-> "Failed to fetch domains for account",
                        detail |-> JsonParseMessage(quotesSource, secrets[key])]
        /\ UNCHANGED <<now, cache, lastSet, calls, accounts, persisted, secrets, pending, kind,
                       faults, tokenCache, upstream, sshKeyCache, volumeCache>>

InitLog ==
    /\ now = 0
    /\ cache = EmptyMap
    /\ lastSet = [k \in Keys |-> [data |-> Undefined, timestamp |-> 0]]
    /\ calls = [c \in 1..MaxCalls |-> Idle]
    /\ ret = [op |-> "none"]
    /\ accounts = <<[id |-> MakeId("google-dns", 0), name |-> "n1", provider |-> "google-dns",
                     color |-> "green", isDefault |-> TRUE, createdAt |-> 0]>>
    /\ persisted = accounts
    /\ secrets = EmptyMap
    /\ pending = <<>>
    /\ kind = "google-dns"
    /\ faults = 0
    /\ tokenCache = EmptyMap
    /\ upstream = NoRecord
    /\ sshKeyCache = EmptyMap
    /\ volumeCache = EmptyMap

NextLog ==
    \/ \E keyJson \in {t \in Strings({"{", "}", "a"}, MaxCredLen) : Len(t) >= 2} :
          UpdateToken(accounts[1].id, keyJson, TRUE)
    \/ \E quotesSource \in BOOLEAN : GoogleListLog(quotesSource)

SpecLog == InitLog /\ [][NextLog]_vars

-----------------------------------------------------------------------------
(* AwsRoute53Provider.signRequest on its own.  A URL is the text after the *)
(* host, a sequence of characters starting with `/`; a SHA-256 or HMAC     *)
(* value is the tuple of what went into it.                                *)

\* new URL(url).pathname: the text before the first `?`
UrlPathname(rest) ==
    IF IndexOf(rest, <<"?">>) = 0 THEN rest ELSE SubSeq(rest, 1, IndexOf(rest, <<"?">>) - 1)

\* new URL(url).search: the text from the first `?` on, '' when nothing
\* follows the `?`
UrlSearch(rest) ==
    IF IndexOf(rest, <<"?">>) \in {0, Len(rest)} THEN <<>>
    ELSE SubSeq(rest, IndexOf(rest, <<"?">>), Len(rest))

\* signRequest(method, url, headers, body, accessKeyId, secretAccessKey) at
\* the instant `new Date()` is read
SignRequest(method, rest, body, accessKeyId, secretAccessKey) ==
    LET host == "route53.amazonaws.com"
        path == UrlPathname(rest) \o UrlSearch(rest)
        amzDate == now
        signedHeaders == "host;x-amz-date"
        canonicalRequest == [method |-> method,
                             uri |-> IF path = <<>> THEN <<"/">> ELSE path,
                             query |-> <<>>,
                             headers |-> <<<<"host", host>>, <<"x-amz-date", amzDate>>>>,
                             signedHeaders |-> signedHeaders,
                             payloadHash |-> <<"sha256", body>>]
        credentialScope == <<amzDate, "us-east-1", "route53", "aws4_request">>
        stringToSign == <<"AWS4-HMAC-SHA256", amzDate, credentialScope,
                          <<"sha256", canonicalRequest>>>>
        signingKey == <<"hmac", <<"hmac", <<"hmac", <<"hmac", <<"AWS4", secretAccessKey>>,
                          amzDate>>, "us-east-1">>, "route53">>, "aws4_request">>
    IN  /\ ret' = [op |-> "signRequest", url |-> rest, canonical |-> canonicalRequest,
                   authorization |-> [algorithm |-> "AWS4-HMAC-SHA256",
                                      credential |-> <<accessKeyId, credentialScope>>,
                                      signedHeaders |-> signedHeaders,
                                      signature |-> <<"hmac", signingKey, stringToSign>>],
                   host |-> host, amzDate |-> amzDate]
        /\ UNCHANGED <<now, cache, lastSet, calls, accounts, persisted, secrets, pending, kind,
                       faults, tokenCache, upstream, sshKeyCache, volumeCache>>

InitSign ==
    /\ now = 0
    /\ cache = EmptyMap
    /\ lastSet = [k \in Keys |-> [data |-> Undefined, timestamp |-> 0]]
    /\ calls = [c \in 1..MaxCalls |-> Idle]
    /\ ret = [op |-> "none"]
    /\ accounts = <<>>
    /\ persisted = <<>>
    /\ secrets = EmptyMap
    /\ pending = <<>>
    /\ kind = "aws-route53"
    /\ faults = 0
    /\ tokenCache = EmptyMap
    /\ upstream = NoRecord
    /\ sshKeyCache = EmptyMap
    /\ volumeCache = EmptyMap

NextSign ==
    \/ Tick(MaxProvClock)
    \/ \E method \in {"GET", "POST"}, body \in {"", "<xml/>"},
          rest \in {u \in Strings({"/", "z", "?"}, MaxUrlLen) : u[1] = "/"},
          accessKeyId \in {"k1"}, secretAccessKey \in {"s1", "s2"} :
          SignRequest(method, rest, body, accessKeyId, secretAccessKey)

SpecSign == InitSign /\ [][NextSign]_vars

-----------------------------------------------------------------------------
(* Properties of the provider adapters *)

\* C1: when exactly one account of a provider fails during listDomains()
\* (its credential lookup or its upstream fetch throws), the call throws
\* nothing and returns exactly one error sentinel, carrying the failing
\* account's id and no records, together with the domains fetched for every
\* other account, none removed or replaced.
C1_OneFailureOneSentinel ==
    LET accts == GetByProvider(accounts, kind)
        failing == {i \in 1..Len(ret.log) : ret.log[i] = "fail"}
        cat[i \in 0..Len(ret.got)] == IF i = 0 THEN <<>> ELSE cat[i - 1] \o ret.got[i]
        isError(r) == r.id[1] = "__error"
        isDomain(r) == r.id[1] # "__error"
    IN  (ret.op = "list" /\ ret.fetched /\ kind \in AccountBased
             /\ Cardinality(failing) = 1)
            => /\ ret.threw = "none"
               /\ \A f \in failing :
                      SelectSeq(ret.result, isError) = <<ErrorSentinel(kind, accts[f].id)>>
               /\ SelectSeq(ret.result, isDomain) = cat[Len(ret.got)]

\* C1 witness: a listing in which the first account yielded a zone and the
\* second account failed
C1_Witness_SecondAccountFails ==
    /\ ret.op = "list" /\ ret.fetched
    /\ ret.log = <<"ok", "fail">>
    /\ ret.got[1] # <<>>

\* C5: updateRecord empties the adapter's cache exactly when it returns
\* successfully, so that the next listDomains() goes to the upstream; an
\* updateRecord that throws at any step leaves the cache as it was.
C5_WriteInvalidatesExactlyOnSuccess ==
    [][(now' = now /\ ret'.op = "update")
           => IF ret'.threw = "none"
              THEN cache' = EmptyMap /\ FetchNeeded(cache', AggregateKey(kind), now')
              ELSE cache' = cache]_vars

\* C5 witness: an updateRecord returned successfully while the aggregate
\* was cached
C5_Witness_UpdateOverCachedList ==
    /\ ret.op = "update" /\ ret.threw = "none"
    /\ ret.cached
    /\ cache = EmptyMap

C7_ZeroAccountsNoAccountSentinel ==
    (ret.op = "list" /\ ret.zero)
        => /\ ret.threw = "none"
           /\ ret.result = <<NoAccountSentinel(kind)>>
           /\ ret.http = 0

\* C13: a non-2xx answer to an AWS Route 53 request is reported as an
\* authentication error when its status is 401 or 403 and as an API error
\* carrying the status otherwise; stated for the change POST of updateRecord.
C13_AwsAuthStatusIsAuthError ==
    (kind = "aws-route53" /\ ret.op = "update" /\ ret.status \notin {0, 200})
        => ret.threw = (IF IsAuthError(ret.status) THEN "AuthError" ELSE "ApiError")

\* C19: in a listing that aggregates over the accounts, an account whose
\* getToken yields nothing is skipped: the result has no element (resource
\* or error sentinel) with that account's id and no request was sent for
\* it; when every account is secretless no request is sent at all, the
\* result is the empty list and the cache holds that empty list.
C19_SecretlessAccountSkipped ==
    (ret.op = "list" /\ ret.threw = "none" /\ ret.fetched /\ kind \in AccountBased) =>
        LET accts == GetByProvider(accounts, kind)
            n == Len(ret.log)
            skipped == {i \in 1..n : ret.log[i] = "skip"}
            sent[i \in 0..n] ==
                IF i = 0 THEN 0
                ELSE sent[i - 1] + (IF i \in skipped THEN 0 ELSE 2 + Len(ret.got[i]))
        IN  /\ n = Len(accts)
            /\ \A i \in skipped : \A m \in 1..Len(ret.result) :
                  ret.result[m].accountId # accts[i].id
            /\ ret.http <= sent[n]
            /\ (skipped = 1..n) =>
                  /\ ret.http = 0
                  /\ ret.result = <<>>
                  /\ AggregateKey(kind) \in DOMAIN cache
                  /\ cache[AggregateKey(kind)].data = <<>>

\* a listing over two accounts, both without a secret, returned
C19_Witness_AllAccountsSecretless ==
    /\ ret.op = "list"
    /\ ret.fetched
    /\ kind \in AccountBased
    /\ ret.log = <<"skip", "skip">>
    /\ ret.result = <<>>
    /\ AggregateKey(kind) \in DOMAIN cache

\* C29: updateRecord called with an accountId that no account of the registry
\* has throws the configuration error with no HTTP request sent and no secret
\* read; it does not go on with the provider's default account, whether one
\* exists or not.
C29_UnknownIdFailsWithoutFallback ==
    (/\ ret.op = "update"
     /\ ret.arg # NoAcct
     /\ GetById(accounts, ret.arg) = <<>>)
        => /\ ret.threw = "Error: Kein Account konfiguriert"
           /\ ret.http = 0
           /\ ret.reads = 0

\* an unknown accountId was refused while the provider had a default account
\* whose secret is stored
C29_Witness_RefusedBesideDefault ==
    /\ ret.op = "update"
    /\ ret.arg # NoAcct
    /\ GetById(accounts, ret.arg) = <<>>
    /\ ret.threw = "Error: Kein Account konfiguriert"
    /\ GetDefaultForProvider(accounts, kind) # <<>>
    /\ GetToken(secrets, GetDefaultForProvider(accounts, kind)[1].id) # Undefined

\* C28: an updateRecord that has sent a request (which carries the secret of
\* the account it resolved) resolved an account whose provider is the
\* adapter's own kind.
C28_OnlyOwnKindCredentialSent ==
    \A c \in 1..MaxCalls :
        (/\ calls[c].op = "update"
         /\ kind \in AccountBased
         /\ calls[c].http > 0)
            => GetById(accounts, calls[c].acct)[1].provider = kind

\* C23: within one aggregation the per-account fetches run concurrently:
\* while the listing waits for an answer, the fetch of every account of the
\* provider has been started (its secret has been asked for).
C23_PerAccountFetchesOverlap ==
    \A c \in 1..MaxCalls :
        (calls[c].op = "list" /\ kind \in AccountBased)
            => calls[c].reads = Len(calls[c].accts)

\* C25: the no-account (and no-token) sentinel is never written to the
\* cache, and a listing answers from the cache, error sentinels included,
\* only with the aggregate of an entry whose age is at most the TTL: an entry
\* older than that, or removed by an invalidation, is not served.
C25_SentinelServedOnlyWithinTtl ==
    [][/\ \A key \in DOMAIN cache' : \A n \in 1..Len(cache'[key].data) :
              cache'[key].data[n].id[1] \notin {"__no_account__", "__no_token__"}
       /\ \A c \in 1..MaxCalls :
              (ListDomains(c) /\ ret'.op = "list" /\ ~ret'.zero) =>
                  /\ AggregateKey(kind) \in DOMAIN cache
                  /\ now - cache[AggregateKey(kind)].timestamp <= ttlMs
                  /\ ret'.result = cache[AggregateKey(kind)].data
       /\ \A c \in 1..MaxCalls :
              (ListDomains(c) /\ ret'.zero) => cache' = cache]_vars

\* a listing was answered from the cache with an aggregate that holds an
\* error sentinel, the entry being exactly one TTL old
C25_Witness_CachedSentinelAtTtl ==
    /\ ret.op = "list"
    /\ ~ret.fetched
    /\ ~ret.zero
    /\ \E n \in 1..Len(ret.result) : ret.result[n].id[1] = "__error"
    /\ AggregateKey(kind) \in DOMAIN cache
    /\ cache[AggregateKey(kind)].data = ret.result
    /\ now - cache[AggregateKey(kind)].timestamp = ttlMs

\* C26: once updateRecord has returned successfully, a listing whose
\* upstream fetch was already in flight does not store its aggregate: the
\* answer to that fetch leaves the adapter's cache without an entry.
C26_InFlightFetchNotStoredAfterWrite ==
    [][\A c \in 1..MaxCalls, resp \in Responses :
          (/\ ret.op = "update"
           /\ ret.threw = "none"
           /\ ListFetch(c, resp))
              => AggregateKey(kind) \notin DOMAIN cache']_vars

\* C30: with no account mutation in progress and no store operation failed,
\* a listDomains() call returns only resources and error sentinels whose
\* accountId is that of an account in the registry (the no-account sentinel
\* has none): nothing attributed to an account deleted by the command, whose
\* onAccountsChanged() invalidated the cache, is returned any more.
C30_NoResourceOfDeletedAccount ==
    [][\A c \in 1..MaxCalls :
          (/\ ListDomains(c)
           /\ ret'.op = "list"
           /\ pending = <<>>
           /\ faults = 0)
              => \A n \in 1..Len(ret'.result) :
                    \/ ret'.result[n].accountId = NoAcct
                    \/ GetById(accounts, ret'.result[n].accountId) # <<>>]_vars

\* C21: nothing an adapter hands to a logging function contains the
\* credential stored for an account.
C21_NoSecretInLog ==
    ret.op \in {"logInfo", "logError"} =>
        \A key \in DOMAIN secrets : IndexOf(ret.detail, secrets[key]) = 0

-----------------------------------------------------------------------------
(* Properties of the hetzner lifecycle actions *)

\* C16: a lifecycle action (reboot, power off, power on, reset, rescue mode,
\* snapshot) that returns leaves the server, SSH-key and volume caches
\* empty; one that throws (no account, no secret, a non-2xx answer, an
\* action error in the body) leaves the three caches as they were.
C16_LifecycleInvalidatesAllOnSuccessOnly ==
    [][ret'.op = "lifecycle" =>
          IF ret'.threw = "none"
          THEN cache' = EmptyMap /\ sshKeyCache' = EmptyMap /\ volumeCache' = EmptyMap
          ELSE UNCHANGED <<cache, sshKeyCache, volumeCache>>]_vars

\* a lifecycle action returned when all three caches held an entry
C16_Witness_ActionOverThreeFilledCaches ==
    /\ ret.op = "lifecycle"
    /\ ret.threw = "none"
    /\ ret.before = <<{"all-servers"}, {"all-ssh-keys"}, {"all-volumes"}>>

-----------------------------------------------------------------------------
(* Properties of the google access-token cache *)

\* C12: a getAccessToken call made while the key's recorded expiry is still
\* later than now sends nothing to the token endpoint and returns the
\* recorded token, so that the call which recorded it and this one called
\* the endpoint once; a call made at or after the recorded expiry posts to
\* the token endpoint again, records the answer with expiry = now +
\* (expires_in - 60 s), and returns the answer's token, never the expired one.
C12_TokenReusedUntilExpiry ==
    [][/\ \A c \in 1..MaxCalls, keyJson \in {"tok1", "tok2"} :
             GetAccessToken(c, keyJson, TRUE) =>
                 IF keyJson \in DOMAIN tokenCache /\ now < tokenCache[keyJson].expiry
                 THEN /\ ret'.threw = "none"
                      /\ ret'.token = tokenCache[keyJson].token
                      /\ ret'.http = 0
                      /\ calls' = calls
                 ELSE /\ calls'[c] # Idle
                      /\ calls'[c].http = 1
       /\ \A c \in 1..MaxCalls, token \in {"at1", "at2"}, expiresIn \in {1, 2, 3} :
             AccessTokenResponse(c, TRUE, token, expiresIn) =>
                 /\ ret'.token = token
                 /\ ret'.token # calls[c].stale
                 /\ ret'.http = 1
                 /\ tokenCache'[calls[c].key] =
                        [token |-> token, expiry |-> now + expiresIn - SkewMargin]]_vars

\* C12 witness: a token returned from the cache at the last instant before
\* its recorded expiry
C12_Witness_ReusedJustBeforeExpiry ==
    /\ ret.op = "token" /\ ret.threw = "none"
    /\ ret.http = 0
    /\ ret.key \in DOMAIN tokenCache
    /\ tokenCache[ret.key].expiry = now + 1

-----------------------------------------------------------------------------
(* Properties of the packed record ids *)

\* C14: for every record a listing produces, unpacking its id as updateRecord
\* does never fails, the parts packed again with the same separator give the
\* id exactly, and the parts are the zone, name and type the id was packed
\* from.
C14_PackedIdRoundTrip ==
    (ret.op = "unpacked")
        => /\ ret.parts.ok
           /\ ret.id = (IF kind = "google-dns"
                        THEN ret.parts.zone \o <<":", ":">> \o ret.parts.name
                                 \o <<":", ":">> \o ret.parts.type
                        ELSE ret.parts.name \o <<"-">> \o ret.parts.type)
           /\ ret.parts.zone = ret.zone
           /\ ret.parts.name = ret.name
           /\ ret.parts.type = ret.type

\* C14 witness: a google record whose zone and name both contain a dash has
\* been unpacked
C14_Witness_DashedNamesUnpacked ==
    /\ ret.op = "unpacked"
    /\ kind = "google-dns"
    /\ \E i \in 1..Len(ret.zone) : ret.zone[i] = "-"
    /\ \E i \in 1..Len(ret.name) : ret.name[i] = "-"

-----------------------------------------------------------------------------
(* Properties of the aws credential parsing *)

\* C20: parseCredentials accepts a stored secret exactly when it is a
\* non-empty key id, the separator, and a non-empty secret, and returns the
\* text before the first separator and everything after it; without a
\* separator it fails with the format error.
C20_CredentialsSplitAtFirstSeparator ==
    ret.op = "parseCredentials" =>
        LET cred == ret.credentials
            i == IndexOf(cred, <<":">>)
        IN  /\ (i = 0) => ret.threw = "FormatError"
            /\ (ret.threw = "none") <=> (1 < i /\ i < Len(cred))
            /\ (ret.threw = "none") =>
                  /\ ret.accessKeyId = SubSeq(cred, 1, i - 1)
                  /\ ret.secretAccessKey = SubSeq(cred, i + 1, Len(cred))

-----------------------------------------------------------------------------
(* Properties of the write sent by updateRecord *)

\* C15: an updateRecord called without a ttl sends a write that carries the
\* record's current TTL, name and type, so that a value-only update leaves
\* the TTL as it was, for every DNS adapter.
C15_ValueOnlyUpdateKeepsTtl ==
    (ret.op = "update" /\ ret.threw = "none" /\ ret.ttl = 0)
        => /\ ret.sent.ttl = ret.before.ttl
           /\ ret.sent.name = ret.before.name
           /\ ret.sent.type = ret.before.type

-----------------------------------------------------------------------------
(* Properties of the account registry *)

\* C2: in every state reachable through addAccount, updateAccount,
\* updateToken and deleteAccount from an empty registry, each provider kind
\* has at most one account with isDefault = true.
C2_AtMostOneDefaultPerProvider ==
    \A i, j \in 1..Len(accounts) :
        (i # j /\ accounts[i].provider = accounts[j].provider)
            => ~(accounts[i].isDefault /\ accounts[j].isDefault)

\* C8: whenever no account mutation is in progress (each one has returned
\* or thrown), the account list persisted under devops.accounts equals the
\* in-memory account list.
C8_PersistedEqualsInMemory ==
    (pending = <<>>) => (persisted = accounts)

\* C9: after deleteAccount(id) completes successfully the registry holds no
\* account with that id and the Credential Store holds no secret under that
\* account's key (getToken(id) is absent); the secrets of all other accounts
\* are unchanged by the deletion.
C9_DeleteRemovesAccountAndItsSecretOnly ==
    [][/\ \A id \in AccountIds :
             (FindIndex(accounts, id) # 0 /\ DeleteAccount(id, TRUE)) =>
                 \A k \in 1..Len(accounts') :
                     GetToken(secrets', accounts'[k].id) = GetToken(secrets, accounts'[k].id)
       /\ \A i \in 1..Len(pending) :
             (pending[i].op = "deleteAccount" /\ Save(i)) =>
                 /\ FindIndex(accounts', pending[i].id) = 0
                 /\ GetToken(secrets', pending[i].id) = Undefined]_vars

\* C10: no two accounts in the registry ever share the same id, for any
\* sequence of addAccount calls, two adds for the same provider kind with no
\* clock advance between them included.
C10_AccountIdsUnique ==
    \A i, j \in 1..Len(accounts) : (i # j) => (accounts[i].id # accounts[j].id)

\* C11: deleteAccount, updateAccount and updateToken called with an id that no
\* account in the registry has throw the not-found error and leave the
\* in-memory account list, the persisted metadata and the Credential Store
\* as they were.
C11_UnknownIdChangesNothing ==
    [][\A id \in AccountIds :
          ((\A i \in 1..Len(accounts) : accounts[i].id # id)
              /\ (\/ \E deleteOk \in BOOLEAN : DeleteAccount(id, deleteOk)
                  \/ \E u \in Updates : UpdateAccount(id, u.name, u.color, u.isDefault)
                  \/ \E token \in Tokens, storeOk \in BOOLEAN :
                        UpdateToken(id, token, storeOk)))
              => /\ ret'.err = "NotFound"
                 /\ UNCHANGED <<accounts, persisted, secrets, pending>>]_vars

\* C11 witness: a call was refused as not found while the registry held an
\* account with its secret
C11_Witness_RefusedOnNonEmptyRegistry ==
    /\ ret.op \in {"deleteAccount", "updateAccount", "updateToken"}
    /\ ret.err = "NotFound"
    /\ Len(accounts) > 0
    /\ \E i \in 1..Len(accounts) : GetToken(secrets, accounts[i].id) # Undefined

\* C17: a migrateFromLegacy() that returns has, for each migrated provider
\* whose legacy secret existed while the provider had no account, created
\* exactly one account of it, marked default, holding that secret, and
\* deleted the legacy secret; for every other provider it created no account
\* and changed no secret; it returns true iff it migrated a provider, so a
\* second call, a call without legacy secrets and a call with accounts
\* present change nothing and return false.
C17_MigrateOnceThenNoOp ==
    (ret.op = "migrate" /\ ret.threw = "none" /\ NoneInFlight("migrate")) =>
        LET b == ret.before
            pre(i) == /\ LegacyKeys[i] \in DOMAIN b.secrets
                      /\ GetByProvider(b.accounts, MigratedKinds[i]) = <<>>
            own(i) == GetByProvider(accounts, MigratedKinds[i])
            due == {i \in 1..Len(MigratedKinds) : pre(i)}
            made == {TokenKey(own(i)[1].id) : i \in due}
            gone == {LegacyKeys[i] : i \in due}
        IN  /\ \A i \in due :
                  /\ Len(own(i)) = 1
                  /\ own(i)[1].isDefault
                  /\ GetToken(secrets, own(i)[1].id) = b.secrets[LegacyKeys[i]]
                  /\ LegacyKeys[i] \notin DOMAIN secrets
            /\ \A i \in (1..Len(MigratedKinds)) \ due :
                  own(i) = GetByProvider(b.accounts, MigratedKinds[i])
            /\ Len(accounts) = Len(b.accounts) + Cardinality(due)
            /\ DOMAIN secrets = ((DOMAIN b.secrets) \ gone) \cup made
            /\ \A key \in (DOMAIN secrets) \ made : secrets[key] = b.secrets[key]
            /\ ret.value = (due # {})
            /\ (due = {}) => (accounts = b.accounts /\ secrets = b.secrets /\ ~ret.value)

\* a call that migrated both providers was followed by one that returned
\* false
C17_Witness_SecondCallAfterMigration ==
    /\ ret.op = "migrate"
    /\ ret.threw = "none"
    /\ NoneInFlight("migrate")
    /\ ret.prev = "true"
    /\ ~ret.value
    /\ Len(accounts) = 2
    /\ Len(ret.before.accounts) = 2

\* C18: getDefaultForProvider(kind) returns an account of that kind marked
\* isDefault when there is one, otherwise the first-created account of that
\* kind, and nothing only when the registry has no account of that kind; it
\* never returns an account of another kind.
C18_DefaultElseFirstOfKind ==
    ret.op = "getDefaultForProvider" =>
        LET own == {i \in 1..Len(accounts) : accounts[i].provider = ret.provider}
            marked == {i \in own : accounts[i].isDefault}
        IN  /\ (own = {}) <=> (ret.result = <<>>)
            /\ ret.result # <<>> =>
                  /\ ret.result[1].provider = ret.provider
                  /\ \E i \in own : accounts[i] = ret.result[1]
                  /\ (marked # {}) => ret.result[1].isDefault
                  /\ (marked = {}) =>
                        \A i \in own : ret.result[1].createdAt <= accounts[i].createdAt

\* no account of the kind is marked, the registry starts with an account of
\* another kind, and the earlier of two accounts of the kind is returned
C18_Witness_FirstOfKindBehindForeign ==
    /\ ret.op = "getDefaultForProvider"
    /\ Len(accounts) = 3
    /\ accounts[1].provider # ret.provider
    /\ accounts[2].provider = ret.provider
    /\ accounts[3].provider = ret.provider
    /\ ~accounts[2].isDefault /\ ~accounts[3].isDefault
    /\ ret.result = <<accounts[2]>>

-----------------------------------------------------------------------------
(* Properties of the cache *)

\* C3: get(k) returns the value last stored under k iff an entry exists and
\* now - storedAt <= ttl; when now - storedAt > ttl it returns absent and the
\* entry is gone from the map afterwards (a later get is a plain miss).
C3_GetFreshIffWithinTtl ==
    [][\A key \in Keys :
          CacheGetStep(key) =>
              LET fresh == key \in DOMAIN cache /\ now - lastSet[key].timestamp <= ttlMs
              IN  /\ fresh => (ret'.value = lastSet[key].data /\ cache' = cache)
                  /\ ~fresh => (ret'.value = Undefined /\ key \notin DOMAIN cache')
                  /\ (ret'.value # Undefined) <=> fresh]_vars

\* C3 witness: a get() that found an entry older than the TTL has returned absent
C3_Witness_ExpiredRead ==
    /\ ret.op = "get"
    /\ ret.age > ttlMs
    /\ ret.value = Undefined
    /\ ret.key \notin DOMAIN cache

\* C4: getOrFetch(key, producer) invokes producer iff get(key) is absent at
\* the call; a fresh hit returns the cached value without invoking it; on a
\* miss the producer's result is stored under key with the current time and
\* that same result is returned.
C4_GetOrFetchInvokesIffAbsent ==
    [][/\ \A c \in 1..MaxCalls, key \in Keys :
             GetOrFetchStep(c, key) =>
                 LET absent == key \notin DOMAIN cache
                               \/ now - lastSet[key].timestamp > ttlMs
                 IN  /\ absent => /\ calls'[c] = [op |-> "getOrFetch", key |-> key]
                                  /\ ret' = ret
                     /\ ~absent => /\ calls' = calls
                                   /\ ret'.op = "getOrFetch"
                                   /\ ret'.fetched = FALSE
                                   /\ ret'.value = lastSet[key].data
       /\ \A c \in 1..MaxCalls, data \in Vals :
             FetchResolveStep(c, data) =>
                 /\ calls[c].key \in DOMAIN cache'
                 /\ cache'[calls[c].key] = [data |-> data, timestamp |-> now]
                 /\ ret'.value = data
                 /\ ret'.fetched = TRUE]_vars

\* C4 witness: a getOrFetch() was served from a fresh entry that an earlier
\* getOrFetch() miss had stored
C4_Witness_HitAfterFetch ==
    /\ ret.op = "getOrFetch"
    /\ ret.fetched = FALSE
    /\ ret.value \in Vals
    /\ ret.time > lastSet[ret.key].timestamp
    /\ calls = [c \in 1..MaxCalls |-> Idle]

\* C24: getOrFetch has no single-flight: a getOrFetch for an absent key calls
\* its producer even when another call for the same key is already waiting
\* for its own; each call returns what its own producer yielded, and the
\* entry holds the data of the producer that resolved last.
C24_NoSingleFlightLastWriterWins ==
    [][/\ \A c \in 1..MaxCalls, key \in Keys :
             (GetOrFetchStep(c, key) /\ key \notin DOMAIN cache) =>
                 calls'[c] = [op |-> "getOrFetch", key |-> key]
       /\ \A c \in 1..MaxCalls, data \in Vals :
             FetchResolveStep(c, data) =>
                 /\ ret'.value = data
                 /\ calls[c].key \in DOMAIN cache'
                 /\ cache'[calls[c].key].data = data]_vars

\* one of two overlapping fetches of a key has resolved and stored its data
\* while the other is still waiting for its producer
C24_Witness_SecondFetchInFlight ==
    /\ ret.op = "getOrFetch"
    /\ ret.fetched
    /\ ret.value = "v2"
    /\ ret.key \in DOMAIN cache
    /\ cache[ret.key].data = "v2"
    /\ \E c \in 1..MaxCalls : calls[c] # Idle /\ calls[c].key = ret.key

=============================================================================
